---------------------------- MODULE Spec2Model ----------------------------
(* A model of flask_openapi: the OpenAPI extension object (its definition,  *)
(* response and tag registries, the decorators that attach metadata to     *)
(* view functions, the swagger document it assembles from the Flask        *)
(* routing table) and the helpers of flask_openapi.utils.                  *)
(*                                                                         *)
(* Python values are tagged records, so that None, '', [] and {} stay      *)
(* distinct: [t |-> "none"], [t |-> "str", v |-> s], [t |-> "bool", ...],  *)
(* [t |-> "list", v |-> <<...>>], [t |-> "dict", v |-> [key |-> value]].   *)
EXTENDS Integers, Sequences, FiniteSets, TLC

VARIABLES
    definitions,      \* OpenAPI._definitions: name -> schema
    responses,        \* OpenAPI._responses: name -> response object
    tagsReg,          \* OpenAPI._tags: tag -> {'name': tag}
    validatorgetter,  \* OpenAPI._validatorgetter
    config,           \* app.config (the keys the extension reads)
    funcs,            \* the view functions under decoration, one per def site
    url_map,          \* app.url_map: the rules, in insertion order
    template,         \* a werkzeug URL rule handed to parse_werkzeug_url
    contact,          \* a contact string handed to parse_contact_string
    stack,            \* the decorators written above each def, innermost first
    nops,             \* number of registrations, decorations and routes so far
    last              \* the most recent operation, its arguments and outcome

vars == <<definitions, responses, tagsReg, validatorgetter, config, funcs,
          url_map, template, contact, stack, nops, last>>

-----------------------------------------------------------------------------
(* Bounds of the model.                                                    *)

\* Registrations, decorations, routes and configuration changes per run.
MaxOps == 4
\* Segments (literals and placeholders) of a generated URL rule.
MaxSegs == 3
\* Blanks before, between and after the groups of a generated contact string.
MaxPad == 1
\* Decorators written above one def.
MaxStack == 3

-----------------------------------------------------------------------------
(* Python values.                                                          *)

None == [t |-> "none"]
Str(s) == [t |-> "str", v |-> s]
Bool(b) == [t |-> "bool", v |-> b]
List(q) == [t |-> "list", v |-> q]
Dict(f) == [t |-> "dict", v |-> f]
EmptyMap == [k \in {} |-> None]

\* Python truthiness of the values used here.
Truthy(x) ==
    CASE x.t = "none" -> FALSE
      [] x.t = "str" -> x.v # ""
      [] x.t = "bool" -> x.v
      [] x.t = "list" -> x.v # <<>>
      [] x.t = "dict" -> DOMAIN x.v # {}

\* dict.get(key): the value, or None.
DictGet(d, key) == IF key \in DOMAIN d.v THEN d.v[key] ELSE None

\* dict[key] = value
DictSet(f, key, value) == [k \in DOMAIN f \cup {key} |-> IF k = key THEN value ELSE f[k]]

NoError == [type |-> "none", arg |-> None]
Raise(type, arg) == [type |-> type, arg |-> arg]

RECURSIVE Concat(_)
Concat(q) == IF q = <<>> THEN "" ELSE Head(q) \o Concat(Tail(q))

RECURSIVE SeqToSet(_)
SeqToSet(q) == IF q = <<>> THEN {} ELSE {Head(q)} \cup SeqToSet(Tail(q))

-----------------------------------------------------------------------------
(* flask_openapi.utils                                                     *)

\* A mapping of werkzeug URL rule types to swagger path formats.
WERKZEUG_URL_SWAGGER_TYPE_MAP ==
    [typ \in {"default", "string", "int", "float", "path", "any", "uuid"} |->
        CASE typ = "int" -> "integer"
          [] typ = "float" -> "number"
          [] OTHER -> "string"]

\* Add a value to the data dict unless it is None or {}.
add_optional(data, key, value) ==
    IF ~(value.t = "none" \/ (value.t = "dict" /\ DOMAIN value.v = {}))
    THEN DictSet(data, key, value)
    ELSE data

\* utils.ref(kind, name): a reference object into the document.
ref(kind, name) == Dict([k \in {"$ref"} |-> Str("#/" \o kind \o "/" \o name)])

(* A URL rule is a string; the model writes it as its sequence of tokens:  *)
(* a literal text, or the punctuation and identifiers of a placeholder.    *)
Converters == {"default", "string", "int", "float", "path", "any", "uuid", "regex"}
VarNames == {"id", "x"}
Idents == Converters \cup VarNames \cup {"filename"}

\* The segments rules are generated from: a literal or a placeholder
\* (conv = "" for a placeholder written without a converter).
Lit(text) == [kind |-> "lit", conv |-> "", name |-> text]
Var(conv, name) == [kind |-> "var", conv |-> conv, name |-> name]

SegTokens(s) ==
    IF s.kind = "lit" THEN <<s.name>>
    ELSE IF s.conv = "" THEN <<"<", s.name, ">">>
    ELSE <<"<", s.conv, ":", s.name, ">">>

RECURSIVE RuleTokens(_)
RuleTokens(segs) ==
    IF segs = <<>> THEN <<>> ELSE SegTokens(Head(segs)) \o RuleTokens(Tail(segs))

\* Index of the first "<" at or after pos, 0 when there is none.
FirstLt(toks, pos) ==
    LET S == {i \in pos..Len(toks) : toks[i] = "<"}
    IN IF S = {} THEN 0 ELSE CHOOSE i \in S : \A j \in S : i <= j

Tok(toks, i) == IF i <= Len(toks) THEN toks[i] ELSE ""

(* werkzeug.routing.parse_rule: yields (converter, arguments, variable)    *)
(* triples; converter is None for a static part and 'default' for a        *)
(* placeholder without one. ValueError on a malformed rule or a variable   *)
(* name used twice.                                                        *)
RECURSIVE ParseFrom(_, _, _, _)

\* A placeholder matched at lt: the static text before it, then the
\* placeholder itself; typed tells whether it names a converter.
ParsePlaceholder(toks, pos, used, acc, lt, typed) ==
    LET static == Concat(SubSeq(toks, pos, lt - 1))
        variable == IF typed THEN toks[lt + 3] ELSE toks[lt + 1]
        converter == IF typed THEN toks[lt + 1] ELSE "default"
        acc1 == IF static # ""
                THEN Append(acc, [typ |-> None, args |-> None, seg |-> static])
                ELSE acc
    IN IF variable \in used
       THEN [err |-> Raise("ValueError", Str("variable name used twice")), parts |-> acc1]
       ELSE ParseFrom(toks, IF typed THEN lt + 5 ELSE lt + 3, used \cup {variable},
                      Append(acc1, [typ |-> Str(converter), args |-> None,
                                    seg |-> variable]))

\* The rest of the rule from pos, lt being the index of its first "<".
ParseRest(toks, pos, used, acc, lt) ==
    LET typed == lt # 0 /\ Tok(toks, lt + 1) \in Idents /\ Tok(toks, lt + 2) = ":"
                 /\ Tok(toks, lt + 3) \in Idents /\ Tok(toks, lt + 4) = ">"
        bare == lt # 0 /\ Tok(toks, lt + 1) \in Idents /\ Tok(toks, lt + 2) = ">"
    IN IF ~(typed \/ bare)
       THEN \* no match here: the rest is static, unless it holds < or >
            IF \E i \in pos..Len(toks) : toks[i] \in {"<", ">"}
            THEN [err |-> Raise("ValueError", Str("malformed url rule")), parts |-> acc]
            ELSE [err |-> NoError,
                  parts |-> Append(acc, [typ |-> None, args |-> None,
                                         seg |-> Concat(SubSeq(toks, pos, Len(toks)))])]
       ELSE ParsePlaceholder(toks, pos, used, acc, lt, typed)

ParseFrom(toks, pos, used, acc) ==
    IF pos > Len(toks) THEN [err |-> NoError, parts |-> acc]
    ELSE ParseRest(toks, pos, used, acc, FirstLt(toks, pos))

parse_rule(toks) == ParseFrom(toks, 1, {}, <<>>)

\* The descriptor parse_werkzeug_url appends for one placeholder.
PathParameter(typname, segment) ==
    Dict([k \in {"name", "in", "required", "type"} |->
            CASE k = "name" -> Str(segment)
              [] k = "in" -> Str("path")
              [] k = "required" -> Bool(TRUE)
              [] k = "type" -> Str(typname)])

\* WERKZEUG_URL_SWAGGER_TYPE_MAP[typ]: defined on the keys of the map only.
TypeLookupDefaulting(typ) ==
    IF typ \in DOMAIN WERKZEUG_URL_SWAGGER_TYPE_MAP
    THEN [err |-> NoError, type |-> WERKZEUG_URL_SWAGGER_TYPE_MAP[typ]]
    ELSE [err |-> NoError, type |-> "string"]

TypeLookup(typ) ==
    IF typ \in DOMAIN WERKZEUG_URL_SWAGGER_TYPE_MAP
    THEN [err |-> NoError, type |-> WERKZEUG_URL_SWAGGER_TYPE_MAP[typ]]
    ELSE [err |-> Raise("KeyError", Str(typ)), type |-> ""]

\* The loop of parse_werkzeug_url over the parts parse_rule yields.
RECURSIVE UrlLoopNoBraces(_, _, _)
UrlLoopNoBraces(parts, path, parameters) ==
    IF parts = <<>> THEN [err |-> NoError, path |-> path, parameters |-> List(parameters)]
    ELSE IF ~Truthy(Head(parts).typ)
    THEN UrlLoopNoBraces(Tail(parts), path \o Head(parts).seg, parameters)
    ELSE IF TypeLookup(Head(parts).typ.v).err.type # "none"
    THEN [err |-> TypeLookup(Head(parts).typ.v).err, path |-> "", parameters |-> None]
    ELSE UrlLoopNoBraces(Tail(parts), path \o Head(parts).seg,
                         Append(parameters, PathParameter(TypeLookup(Head(parts).typ.v).type,
                                                          Head(parts).seg)))

RECURSIVE UrlLoop(_, _, _)
UrlLoop(parts, path, parameters) ==
    IF parts = <<>> THEN [err |-> NoError, path |-> path, parameters |-> List(parameters)]
    ELSE IF ~Truthy(Head(parts).typ)
    THEN UrlLoop(Tail(parts), path \o Head(parts).seg, parameters)
    ELSE IF TypeLookup(Head(parts).typ.v).err.type # "none"
    THEN [err |-> TypeLookup(Head(parts).typ.v).err, path |-> "", parameters |-> None]
    ELSE UrlLoop(Tail(parts), path \o "{" \o Head(parts).seg \o "}",
                 Append(parameters, PathParameter(TypeLookup(Head(parts).typ.v).type,
                                                  Head(parts).seg)))

\* The loop, entered with what parse_rule gave.
UrlParts(parsed) ==
    IF parsed.err.type # "none"
    THEN [err |-> parsed.err, path |-> "", parameters |-> None]
    ELSE UrlLoop(parsed.parts, "", <<>>)

\* parse_werkzeug_url(url): (path, parameters), or the error raised.
parse_werkzeug_url(url) == UrlParts(parse_rule(url))

(* A contact string is its sequence of characters. AUTHOR_REGEX matches    *)
(* blanks, an optional name, blanks, an optional <email>, blanks, an       *)
(* optional (url) and blanks up to the end; a match is written as the six  *)
(* positions where these pieces end.                                       *)
Blanks(s, a, b) == \A i \in a..b : s[i] = " "
Without(s, a, b, stop) == a <= b /\ \A i \in a..b : s[i] \notin stop

\* [^<(]+? from a + 1 to b, or no name when b = a.
NameAt(s, a, b) == b = a \/ Without(s, a + 1, b, {"<", "("})
\* <[^>(]+?> from a + 1 to b, or no email when b = a.
EmailAt(s, a, b) ==
    b = a \/ (b >= a + 3 /\ s[a + 1] = "<" /\ s[b] = ">" /\ Without(s, a + 2, b - 1, {">", "("}))
\* \([^)]+?\) from a + 1 to b, or no url when b = a.
UrlAt(s, a, b) ==
    b = a \/ (b >= a + 3 /\ s[a + 1] = "(" /\ s[b] = ")" /\ Without(s, a + 2, b - 1, {")"}))

\* Every way the pattern matches the whole of s.
ContactMatches(s) ==
    {m \in UNION {UNION {UNION {UNION {UNION {
            {<<p0, p1, p2, p3, p4, p5>> : p5 \in {q \in p4..Len(s) : UrlAt(s, p4, q)}}
          : p4 \in {q \in p3..Len(s) : Blanks(s, p3 + 1, q)}}
          : p3 \in {q \in p2..Len(s) : EmailAt(s, p2, q)}}
          : p2 \in {q \in p1..Len(s) : Blanks(s, p1 + 1, q)}}
          : p1 \in {q \in p0..Len(s) : NameAt(s, p0, q)}}
          : p0 \in {q \in 0..Len(s) : Blanks(s, 1, q)}}
        : Blanks(s, m[6] + 1, Len(s))}

\* The order the regex engine tries the alternatives in, smaller first: a
\* greedy run of blanks longest first, an optional group present before
\* absent, and a lazy group shortest first.
Greedy(a, b, n) == n - (b - a)
LazyGreedy(a, b, n) == IF b > a THEN n - (b - a) ELSE n + 1
Lazy(a, b, n) == IF b > a THEN b - a ELSE n + 1

MatchRank(m, n) ==
    ((((Greedy(0, m[1], n) * (n + 2) + Lazy(m[1], m[2], n)) * (n + 2)
        + Greedy(m[2], m[3], n)) * (n + 2) + Lazy(m[3], m[4], n)) * (n + 2)
        + Greedy(m[4], m[5], n)) * (n + 2) + Lazy(m[5], m[6], n)

\* AUTHOR_REGEX.match(string): the match the engine finds first, if any.
FirstMatch(s, M) == CHOOSE m \in M : \A o \in M : MatchRank(m, Len(s)) <= MatchRank(o, Len(s))

\* match.group(...): the text of a group, None when it took no part.
Group(s, a, b) == IF b >= a THEN Str(Concat(SubSeq(s, a, b))) ELSE None

ContactOf(s, m) ==
    Dict(add_optional(add_optional(add_optional(EmptyMap,
            "name", Group(s, m[1] + 1, m[2])),
            "email", Group(s, m[3] + 2, m[4] - 1)),
            "url", Group(s, m[5] + 2, m[6] - 1)))

ContactResult(s, M) == IF M = {} THEN Dict(EmptyMap) ELSE ContactOf(s, FirstMatch(s, M))

\* parse_contact_string(string)
parse_contact_string(string) == ContactResult(string, ContactMatches(string))

-----------------------------------------------------------------------------
(* The values the operations draw their arguments from.                    *)

\* JSON schemas handed to add_definition and schema.
SchemaObject == Dict([k \in {"type"} |-> Str("object")])
SchemaTitled ==
    Dict([k \in {"title", "type"} |-> IF k = "title" THEN Str("Object") ELSE Str("object")])
SchemaSpam ==
    Dict([k \in {"type", "required"} |->
            IF k = "type" THEN Str("object") ELSE List(<<Str("spam")>>)])

\* Tags, with Python's order on these strings (code point order).
TagNames == {"bar", "foo"}
TagArgs == SUBSET TagNames
StrRank(s) ==
    CASE s = "bar" -> 1
      [] s = "baz" -> 2
      [] s = "foo" -> 3
      [] OTHER -> 4

\* Request bodies (request.json).
Bodies == {Dict(EmptyMap), Dict([k \in {"spam"} |-> Str("bacon")])}

\* The def sites of the application's view functions, and the functions
\* Flask and init_app bring: send_static_file, json_handler, yaml_handler.
Sites == {"h1", "h2"}
BuiltinFunctions == {"static", "json_handler", "yaml_handler"}

\* HTTP methods, and str.lower() on them.
Lower(m) ==
    CASE m = "GET" -> "get"
      [] m = "POST" -> "post"
      [] m = "HEAD" -> "head"
      [] m = "OPTIONS" -> "options"

\* Flask's Rule: OPTIONS is provided automatically, HEAD comes with GET.
RuleMethods(given) ==
    given \cup {"OPTIONS"} \cup (IF "GET" \in given THEN {"HEAD"} ELSE {})

\* werkzeug accepts a rule that starts with a slash, parses, and whose
\* converters the map knows (the default ones and the application's 'regex').
KnownConverters(parsed) ==
    /\ parsed.err.type = "none"
    /\ \A i \in 1..Len(parsed.parts) :
          parsed.parts[i].typ.t = "str" => parsed.parts[i].typ.v \in Converters

Accepted(toks) ==
    /\ toks # <<>> /\ toks[1] # "<"
    /\ KnownConverters(parse_rule(toks))

\* Contact strings of the form name <email> (url): the text of each group
\* (empty when the group is left out) and the blanks around the groups.
ContactNames == {<<>>, <<"O", "a", "k">>, <<"a", " ", "b">>, <<"a", ">">>}
ContactEmails == {<<>>, <<"o", "@", "k">>, <<"o", " ", "k">>}
ContactUrls == {<<>>, <<"/", "o">>, <<"o", "(", "k">>}
Pad(n) == [i \in 1..n |-> " "]
ContactForms ==
    [lead : 0..MaxPad, name : ContactNames, sep1 : 0..MaxPad, email : ContactEmails,
     sep2 : 0..MaxPad, url : ContactUrls, trail : 0..MaxPad]
ContactChars(f) ==
    Pad(f.lead) \o f.name \o Pad(f.sep1)
        \o (IF f.email = <<>> THEN <<>> ELSE <<"<">> \o f.email \o <<">">>)
        \o Pad(f.sep2)
        \o (IF f.url = <<>> THEN <<>> ELSE <<"(">> \o f.url \o <<")">>)
        \o Pad(f.trail)
NoForm == [lead |-> 0, name |-> <<>>, sep1 |-> 0, email |-> <<>>, sep2 |-> 0,
           url |-> <<>>, trail |-> 0]
\* The contact strings the model parses: those of the form, and "<>".
NoContact == [formed |-> TRUE, form |-> NoForm, chars |-> <<>>]
Contacts ==
    {[formed |-> TRUE, form |-> f, chars |-> ContactChars(f)] : f \in ContactForms}
        \cup {[formed |-> FALSE, form |-> NoForm, chars |-> <<"<", ">">>]}

\* No decorators written yet.
NoStack == [h \in Sites |-> <<>>]

-----------------------------------------------------------------------------
(* View functions. A def site is the stack of function objects its         *)
(* decorators made: layers[1] is the function as written, and each schema  *)
(* or deprecated decorator adds the wrapper it returns, whose __dict__     *)
(* functools.wraps copies from the function it wraps. The tags set and the *)
(* responses dict are shared by every layer holding the attribute.         *)

Cell == [t |-> "cell"]

NewFunction(doc) ==
    [layers |-> <<[wrap |-> "raw", attrs |-> EmptyMap]>>,
     tags |-> {}, responses |-> EmptyMap, doc |-> doc]

TopLayer(h) == Len(funcs[h].layers)
Attrs(h, k) == funcs[h].layers[k].attrs
HasAttr(h, k, name) == name \in DOMAIN Attrs(h, k)

\* fn.<name> = value on the function object at layer k.
SetAttr(f, k, name, value) ==
    [f EXCEPT !.layers[k].attrs = DictSet(@, name, value)]

WrapBare(f, kind) ==
    [f EXCEPT !.layers = Append(@, [wrap |-> kind, attrs |-> EmptyMap])]

\* functools.wraps(fn)(wrapper): a new function object holding fn's __dict__.
Wrap(f, kind) ==
    [f EXCEPT !.layers = Append(@, [wrap |-> kind, attrs |-> f.layers[Len(f.layers)].attrs])]

\* app.view_functions[rule.endpoint]: the site and the layer that was routed.
Routed(h) == \E i \in 1..Len(url_map) : url_map[i].endpoint = h
RuleOf(h) == url_map[CHOOSE i \in 1..Len(url_map) : url_map[i].endpoint = h]

\* sorted(set of str)
RECURSIVE Sorted(_)
Sorted(S) ==
    IF S = {} THEN <<>>
    ELSE LET m == CHOOSE x \in S : \A y \in S : StrRank(x) <= StrRank(y)
         IN <<m>> \o Sorted(S \ {m})

-----------------------------------------------------------------------------
(* OpenAPI: the document.                                                  *)

\* app.name
AppName == Str("app")

\* OpenAPI._config(name): app.config.get('OPENAPI_' + name.upper())
Config(name) == config[name]

\* OpenAPI._extract_schema(view_func), for the function object at layer k of h.
extract_schema_lenient(h, k) ==
    IF ~HasAttr(h, k, "schema") THEN [err |-> NoError, value |-> None]
    ELSE LET schema == Attrs(h, k)["schema"] IN
         IF schema.t = "dict" THEN [err |-> NoError, value |-> schema]
         ELSE [err |-> NoError, value |-> ref("definitions", schema.v)]

extract_schema(h, k) ==
    IF ~HasAttr(h, k, "schema") THEN [err |-> NoError, value |-> None]
    ELSE LET schema == Attrs(h, k)["schema"] IN
         IF schema.t = "dict" THEN [err |-> NoError, value |-> schema]
         ELSE IF schema.v \in DOMAIN definitions
         THEN [err |-> NoError, value |-> ref("definitions", schema.v)]
         ELSE [err |-> Raise("UnknownDefinitionError", schema), value |-> None]

\* OpenAPI._extract_description(view_func): inspect.getdoc(view_func)
extract_description(h) == funcs[h].doc

BodyParameter(schema) ==
    Dict([k \in {"in", "name", "schema"} |->
            CASE k = "in" -> Str("body")
              [] k = "name" -> Str("payload")
              [] k = "schema" -> schema])

\* path['tags'] = sorted(view_func.tags), under suppress(AttributeError)
OperationTags(path, h, k) ==
    IF HasAttr(h, k, "tags")
    THEN DictSet(path, "tags", List([i \in 1..Cardinality(funcs[h].tags) |->
                                        Str(Sorted(funcs[h].tags)[i])]))
    ELSE path

\* The operation object _process_rule builds once _extract_schema returned.
Operation(h, k, schema) ==
    LET p1 == IF Truthy(schema.value)
              THEN DictSet(EmptyMap, "parameters", List(<<BodyParameter(schema.value)>>))
              ELSE EmptyMap
        p2 == IF HasAttr(h, k, "responses")
              THEN DictSet(p1, "responses", Dict(funcs[h].responses))
              ELSE p1
        p3 == add_optional(p2, "description", extract_description(h))
        p4 == add_optional(p3, "deprecated",
                           IF HasAttr(h, k, "deprecated") THEN Attrs(h, k)["deprecated"]
                           ELSE None)
    IN IF schema.err.type # "none" THEN [err |-> schema.err, value |-> None]
       ELSE [err |-> NoError, value |-> Dict(OperationTags(p4, h, k))]

\* OpenAPI._process_rule(rule): the operation object of the rule's view.
process_rule(rule) ==
    Operation(rule.endpoint, rule.layer, extract_schema(rule.endpoint, rule.layer))

PathItemFirstParameters(paths, url, parameters, keys, operation) ==
    LET old == IF url \in DOMAIN paths THEN paths[url].v ELSE EmptyMap
        withParameters == IF Truthy(parameters) /\ "parameters" \notin DOMAIN old
                          THEN DictSet(old, "parameters", parameters) ELSE old
    IN Dict([key \in DOMAIN withParameters \cup keys |->
                IF key \in keys THEN operation.value ELSE withParameters[key]])

\* The path item of url after the parameters and the operations of a rule
\* are written into it.
PathItem(paths, url, parameters, keys, operation) ==
    LET old == IF url \in DOMAIN paths THEN paths[url].v ELSE EmptyMap
        withParameters == IF Truthy(parameters)
                          THEN DictSet(old, "parameters", parameters) ELSE old
    IN Dict([key \in DOMAIN withParameters \cup keys |->
                IF key \in keys THEN operation.value ELSE withParameters[key]])

PathsBodyWithHead(rule, paths, parsed, operation) ==
    IF rule.endpoint = "static" THEN [err |-> NoError, paths |-> paths]
    ELSE IF parsed.err.type # "none" THEN [err |-> parsed.err, paths |-> paths]
    ELSE IF rule.methods \ {"OPTIONS"} = {}
    THEN [err |-> NoError,
          paths |-> DictSet(paths, parsed.path,
                            PathItem(paths, parsed.path, parsed.parameters, {}, operation))]
    ELSE IF operation.err.type # "none" THEN [err |-> operation.err, paths |-> paths]
    ELSE [err |-> NoError,
          paths |-> DictSet(paths, parsed.path,
                            PathItem(paths, parsed.path, parsed.parameters,
                                     {Lower(m) : m \in rule.methods \ {"OPTIONS"}},
                                     operation))]

PathsBodyWithStatic(rule, paths, parsed, operation) ==
    IF parsed.err.type # "none" THEN [err |-> parsed.err, paths |-> paths]
    ELSE IF rule.methods \ {"HEAD", "OPTIONS"} = {}
    THEN [err |-> NoError,
          paths |-> DictSet(paths, parsed.path,
                            PathItem(paths, parsed.path, parsed.parameters, {}, operation))]
    ELSE IF operation.err.type # "none" THEN [err |-> operation.err, paths |-> paths]
    ELSE [err |-> NoError,
          paths |-> DictSet(paths, parsed.path,
                            PathItem(paths, parsed.path, parsed.parameters,
                                     {Lower(m) : m \in rule.methods \ {"HEAD", "OPTIONS"}},
                                     operation))]

\* The body of the loop of OpenAPI.paths for one rule, on the paths so far:
\* parsed is what parse_werkzeug_url(rule.rule) gave and operation what
\* _process_rule(rule) gives for each method other than HEAD and OPTIONS.
PathsBody(rule, paths, parsed, operation) ==
    IF rule.endpoint = "static" THEN [err |-> NoError, paths |-> paths]
    ELSE IF parsed.err.type # "none" THEN [err |-> parsed.err, paths |-> paths]
    ELSE IF rule.methods \ {"HEAD", "OPTIONS"} = {}
    THEN [err |-> NoError,
          paths |-> DictSet(paths, parsed.path,
                            PathItem(paths, parsed.path, parsed.parameters, {}, operation))]
    ELSE IF operation.err.type # "none" THEN [err |-> operation.err, paths |-> paths]
    ELSE [err |-> NoError,
          paths |-> DictSet(paths, parsed.path,
                            PathItem(paths, parsed.path, parsed.parameters,
                                     {Lower(m) : m \in rule.methods \ {"HEAD", "OPTIONS"}},
                                     operation))]

PathsStep(rule, paths) ==
    PathsBody(rule, paths, parse_werkzeug_url(rule.rule), process_rule(rule))

RECURSIVE PathsLoop(_, _)

PathsAfterSkipping(rest, step) == PathsLoop(rest, step.paths)

\* The loop goes on after a step unless the step raised.
PathsAfter(rest, step) ==
    IF step.err.type # "none" THEN [err |-> step.err, value |-> None]
    ELSE PathsLoop(rest, step.paths)

PathsLoop(rules, paths) ==
    IF rules = <<>> THEN [err |-> NoError, value |-> Dict(paths)]
    ELSE PathsAfter(Tail(rules), PathsStep(Head(rules), paths))

\* OpenAPI.paths, iterating the rules in the given order.
Paths(order) == PathsLoop([i \in 1..Len(url_map) |-> url_map[order[i]]], EmptyMap)

\* OpenAPI.info
Info ==
    LET d0 == [k \in {"title", "version"} |->
                 IF k = "title"
                 THEN (IF Truthy(Config("OPENAPI_INFO_TITLE"))
                       THEN Config("OPENAPI_INFO_TITLE") ELSE AppName)
                 ELSE Config("OPENAPI_INFO_VERSION")]
        d1 == add_optional(d0, "description", Config("OPENAPI_INFO_DESCRIPTION"))
        d2 == add_optional(d1, "termsOfService", Config("OPENAPI_INFO_TERMS_OF_SERVICE"))
        d3 == add_optional(d2, "contact", Config("OPENAPI_INFO_CONTACT"))
        d4 == add_optional(d3, "license", Config("OPENAPI_INFO_LICENSE"))
    IN Dict(d4)

HostAlways == Config("SERVER_NAME")

\* OpenAPI.host: the server name, only if show_host is set.
Host == IF Truthy(Config("OPENAPI_SHOW_HOST")) THEN Config("SERVER_NAME") ELSE None

\* OpenAPI.base_path
BasePath == Config("OPENAPI_BASE_PATH")

\* OpenAPI.schemes
Schemes ==
    IF Truthy(Config("PREFERRED_URL_SCHEME"))
    THEN List(<<Config("PREFERRED_URL_SCHEME")>>) ELSE None

\* OpenAPI.tags: the tag descriptions sorted by name.
TagsProperty ==
    IF DOMAIN tagsReg # {}
    THEN List([i \in 1..Cardinality(DOMAIN tagsReg) |-> tagsReg[Sorted(DOMAIN tagsReg)[i]]])
    ELSE None

\* OpenAPI.definitions
DefinitionsProperty == IF DOMAIN definitions # {} THEN Dict(definitions) ELSE None

\* OpenAPI.responses
ResponsesProperty == IF DOMAIN responses # {} THEN Dict(responses) ELSE None

\* The document OpenAPI.swagger builds around the paths.
Document(paths) ==
    LET d0 == [k \in {"swagger", "info", "paths"} |->
                 CASE k = "swagger" -> Str("2.0")
                   [] k = "info" -> Info
                   [] k = "paths" -> paths.value]
        d1 == add_optional(d0, "host", Host)
        d2 == add_optional(d1, "basePath", BasePath)
        d3 == add_optional(d2, "schemes", Schemes)
        d4 == add_optional(d3, "paths", paths.value)
        d5 == add_optional(d4, "definitions", DefinitionsProperty)
        d6 == add_optional(d5, "responses", ResponsesProperty)
        d7 == add_optional(d6, "tags", TagsProperty)
    IN IF paths.err.type # "none" THEN [err |-> paths.err, value |-> None]
       ELSE [err |-> NoError, value |-> Dict(d7)]

\* OpenAPI.swagger, the rules iterated in the given order.
Swagger(order) == Document(Paths(order))

\* flask.jsonify(value): the JSON text, as the tree of its values.
RECURSIVE JsonDumps(_)
JsonDumps(x) ==
    CASE x.t = "dict" -> [j |-> "object", members |-> [k \in DOMAIN x.v |-> JsonDumps(x.v[k])]]
      [] x.t = "list" -> [j |-> "array", items |-> [i \in DOMAIN x.v |-> JsonDumps(x.v[i])]]
      [] x.t = "str" -> [j |-> "string", chars |-> x.v]
      [] x.t = "bool" -> [j |-> IF x.v THEN "true" ELSE "false"]
      [] x.t = "none" -> [j |-> "null"]

\* response.json: the value a client parses the JSON text into.
RECURSIVE JsonLoads(_)
JsonLoads(x) ==
    CASE x.j = "object" -> Dict([k \in DOMAIN x.members |-> JsonLoads(x.members[k])])
      [] x.j = "array" -> List([i \in DOMAIN x.items |-> JsonLoads(x.items[i])])
      [] x.j = "string" -> Str(x.chars)
      [] x.j = "true" -> Bool(TRUE)
      [] x.j = "false" -> Bool(FALSE)
      [] x.j = "null" -> None

\* yaml.dump(value, default_flow_style=False): the YAML text, as the tree of
\* its nodes.
RECURSIVE YamlDump(_)
YamlDump(x) ==
    CASE x.t = "dict" -> [y |-> "mapping", pairs |-> [k \in DOMAIN x.v |-> YamlDump(x.v[k])]]
      [] x.t = "list" -> [y |-> "sequence", items |-> [i \in DOMAIN x.v |-> YamlDump(x.v[i])]]
      [] x.t = "str" -> [y |-> "str", chars |-> x.v]
      [] x.t = "bool" -> [y |-> "bool", chars |-> IF x.v THEN "true" ELSE "false"]
      [] x.t = "none" -> [y |-> "null", chars |-> "null"]

\* yaml.load(text)
RECURSIVE YamlLoad(_)
YamlLoad(x) ==
    CASE x.y = "mapping" -> Dict([k \in DOMAIN x.pairs |-> YamlLoad(x.pairs[k])])
      [] x.y = "sequence" -> List([i \in DOMAIN x.items |-> YamlLoad(x.items[i])])
      [] x.y = "str" -> Str(x.chars)
      [] x.y = "bool" -> Bool(x.chars = "true")
      [] x.y = "null" -> None

\* What json_handler and yaml_handler return for the document r.
Served(h, r) ==
    IF h = "json_handler"
    THEN [content_type |-> "application/json", body |-> JsonDumps(r.value)]
    ELSE [content_type |-> "application/yaml", body |-> YamlDump(r.value)]

-----------------------------------------------------------------------------
(* OpenAPI: registration and the decorators.                               *)

\* OpenAPI.add_definition(definition, name): the error raised and the
\* registry afterwards.
add_definition_title_first(definition, name) ==
    LET name1 == IF Truthy(DictGet(definition, "title"))
                 THEN DictGet(definition, "title") ELSE name
    IN IF ~Truthy(name1)
       THEN [err |-> Raise("UnnamedDefinitionError", definition), definitions |-> definitions]
       ELSE [err |-> NoError, definitions |-> DictSet(definitions, name1.v, definition)]

add_definition_store_first(definition, name) ==
    LET name1 == IF ~Truthy(name) THEN DictGet(definition, "title") ELSE name
    IN IF ~Truthy(name1)
       THEN [err |-> Raise("UnnamedDefinitionError", definition),
             definitions |-> DictSet(definitions, "", definition)]
       ELSE [err |-> NoError, definitions |-> DictSet(definitions, name1.v, definition)]

add_definition(definition, name) ==
    LET name1 == IF ~Truthy(name) THEN DictGet(definition, "title") ELSE name
    IN IF ~Truthy(name1)
       THEN [err |-> Raise("UnnamedDefinitionError", definition), definitions |-> definitions]
       ELSE [err |-> NoError, definitions |-> DictSet(definitions, name1.v, definition)]

\* OpenAPI.add_response(name, response)
add_response(name, response) == DictSet(responses, name, response)

\* OpenAPI.schema(schema)(fn): fn.schema = schema, and the wrapper around fn.
schema_decorator(f, schema) == Wrap(SetAttr(f, Len(f.layers), "schema", schema), "schema")

\* OpenAPI.tag(*tags)(fn): the tags join fn.tags, made on first use.
tag_decorator(f, tags) ==
    LET top == Len(f.layers) IN
    IF "tags" \in DOMAIN f.layers[top].attrs
    THEN [f EXCEPT !.tags = @ \cup tags]
    ELSE [SetAttr(f, top, "tags", Cell) EXCEPT !.tags = tags]

tag_registry_latest(tags) ==
    [t \in tags |-> Dict([k \in {"name"} |-> Str(t)])]

\* OpenAPI.tag: every tag not yet in _tags gets its description.
tag_registry(tags) ==
    [t \in DOMAIN tagsReg \cup tags |->
        IF t \in DOMAIN tagsReg THEN tagsReg[t] ELSE Dict([k \in {"name"} |-> Str(t)])]

\* OpenAPI.deprecated(fn): fn.deprecated = True, and the wrapper around fn.
deprecated_decorator(f) ==
    Wrap(SetAttr(f, Len(f.layers), "deprecated", Bool(TRUE)), "deprecated")

\* A status code argument: an http.HTTPStatus member, an int or a str.
HTTPStatus(n) == [t |-> "HTTPStatus", v |-> n]
PyInt(n) == [t |-> "int", v |-> n]

\* str(n) for the status codes used.
IntStr(n) ==
    CASE n = 200 -> "200"
      [] n = 404 -> "404"

\* OpenAPI.response(status_code, response)(fn)
response_decorator_keep_first(f, status_code, response) ==
    LET response1 == IF response.t = "str" THEN ref("responses", response.v) ELSE response
        status1 == IF status_code.t = "HTTPStatus" THEN PyInt(status_code.v) ELSE status_code
        key == IF status1.t = "int" THEN IntStr(status1.v) ELSE status1.v
        top == Len(f.layers)
        f1 == IF "responses" \in DOMAIN f.layers[top].attrs THEN f ELSE SetAttr(f, top, "responses", Cell)
    IN IF key \in DOMAIN f1.responses THEN f1 ELSE [f1 EXCEPT !.responses = DictSet(@, key, response1)]

response_decorator(f, status_code, response) ==
    LET response1 == IF response.t = "str" THEN ref("responses", response.v) ELSE response
        status1 == IF status_code.t = "HTTPStatus" THEN PyInt(status_code.v) ELSE status_code
        key == IF status1.t = "int" THEN IntStr(status1.v) ELSE status1.v
        top == Len(f.layers)
        f1 == IF "responses" \in DOMAIN f.layers[top].attrs THEN f
              ELSE SetAttr(f, top, "responses", Cell)
    IN [f1 EXCEPT !.responses = DictSet(@, key, response1)]

\* The decorators a def may carry, in a fixed order.
DecoratorList ==
    << [d |-> "schema", schema |-> Str("Spam")],
       [d |-> "tag", tags |-> {"foo"}],
       [d |-> "tag", tags |-> {"bar"}],
       [d |-> "response", status_code |-> PyInt(200),
        response |-> Dict([k \in {"description"} |-> Str("OK")])],
       [d |-> "response", status_code |-> Str("404"), response |-> Str("NotFound")],
       [d |-> "deprecated"] >>
Decorators == SeqToSet(DecoratorList)

\* The stacks of at most MaxStack decorators, and the stack that holds the
\* decorators of S once each in the order of DecoratorList.
Stacks == UNION {[1..n -> Decorators] : n \in 0..MaxStack}
InS(S, d) == d \in S
Canonical(S) == SelectSeq(DecoratorList, LAMBDA d : InS(S, d))

\* decorator(fn) for one decorator of a stack.
Decorate(f, d) ==
    CASE d.d = "schema" -> schema_decorator(f, d.schema)
      [] d.d = "tag" -> tag_decorator(f, d.tags)
      [] d.d = "response" -> response_decorator(f, d.status_code, d.response)
      [] d.d = "deprecated" -> deprecated_decorator(f)

\* A def statement: the decorators are applied from the innermost outwards.
RECURSIVE DecorateAll(_, _)
DecorateAll(f, q) == IF q = <<>> THEN f ELSE DecorateAll(Decorate(f, Head(q)), Tail(q))

\* The names the tag decorators of a stack carry.
StackTags(q) == UNION {d.tags : d \in {x \in SeqToSet(q) : x.d = "tag"}}

-----------------------------------------------------------------------------
(* Requests: the validation gate and the deprecation warning.              *)

\* jsonschema's Draft4Validator(schema).validate(instance), for the keywords
\* the schemas here use: type 'object' and required.
Draft4Valid(schema, instance) ==
    /\ ("type" \in DOMAIN schema.v /\ schema.v["type"] = Str("object"))
          => instance.t = "dict"
    /\ ("required" \in DOMAIN schema.v /\ instance.t = "dict")
          => \A i \in 1..Len(schema.v["required"].v) :
                schema.v["required"].v[i].v \in DOMAIN instance.v

\* validator.validate(request.json), for the validator the getter returned:
\* OpenAPISchemaValidator extends Draft4Validator; the application's own
\* getter returns a validator that accepts every body.
ValidatorAccepts(getter, schema, instance) ==
    IF getter = "OpenAPISchemaValidator" THEN Draft4Valid(schema, instance) ELSE TRUE

Event(ev, a, b) == [ev |-> ev, a |-> a, b |-> b]

\* The original function of site h: it records the call and returns.
HandlerResult(h) == Str("response of " \o h)

\* Calling the function object at layer k of site h during a request:
\* the error raised, the value returned, and what happened, in order.
RECURSIVE CallGateAfter(_, _, _, _)
CallGateAfter(h, k, req, trace) ==
    LET layer == funcs[h].layers[k] IN
    IF layer.wrap = "raw"
    THEN [err |-> NoError, ret |-> HandlerResult(h),
          trace |-> Append(trace, Event("handler", Str(h), req.view_args))]
    ELSE IF layer.wrap = "schema"
    THEN LET inner == CallGateAfter(h, k - 1, req, trace)
             schema0 == Attrs(h, k - 1)["schema"]
             schema == IF schema0.t = "str" THEN definitions[schema0.v] ELSE schema0
         IN IF schema0.t = "str" /\ schema0.v \notin DOMAIN definitions
            THEN [err |-> Raise("KeyError", schema0), ret |-> None, trace |-> inner.trace]
            ELSE IF ~ValidatorAccepts(validatorgetter, schema, req.json)
            THEN [err |-> Raise("ValidationError", req.json), ret |-> None,
                  trace |-> inner.trace \o <<Event("validatorgetter", Str(validatorgetter), schema),
                                              Event("validate", req.json, None)>>]
            ELSE [inner EXCEPT !.trace = @ \o <<Event("validatorgetter", Str(validatorgetter), schema),
                                                 Event("validate", req.json, None)>>]
    ELSE CallGateAfter(h, k - 1, req, trace)

RECURSIVE CallAlwaysWarn(_, _, _, _)
CallAlwaysWarn(h, k, req, trace) ==
    LET layer == funcs[h].layers[k] IN
    IF layer.wrap = "raw"
    THEN [err |-> NoError, ret |-> HandlerResult(h),
          trace |-> Append(trace, Event("handler", Str(h), req.view_args))]
    ELSE IF layer.wrap = "schema"
    THEN LET schema0 == Attrs(h, k - 1)["schema"]
             schema == IF schema0.t = "str" THEN definitions[schema0.v] ELSE schema0
             t1 == Append(trace, Event("validatorgetter", Str(validatorgetter), schema))
             t2 == Append(t1, Event("validate", req.json, None))
         IN IF schema0.t = "str" /\ schema0.v \notin DOMAIN definitions
            THEN [err |-> Raise("KeyError", schema0), ret |-> None, trace |-> trace]
            ELSE IF ~ValidatorAccepts(validatorgetter, schema, req.json)
            THEN [err |-> Raise("ValidationError", req.json), ret |-> None, trace |-> t2]
            ELSE CallAlwaysWarn(h, k - 1, req, t2)
    ELSE CallAlwaysWarn(h, k - 1, req,
                        Append(trace, Event("warnings.warn", Str(req.method), Str(req.url))))

RECURSIVE CallStale(_, _, _, _)
CallStale(h, k, req, trace) ==
    LET layer == funcs[h].layers[k] IN
    IF layer.wrap = "raw"
    THEN [err |-> NoError, ret |-> HandlerResult(h),
          trace |-> Append(trace, Event("handler", Str(h), req.view_args))]
    ELSE IF layer.wrap = "schema"
    THEN LET schema0 == Attrs(h, k - 1)["schema"]
             schema == IF schema0.t = "str" THEN SchemaObject ELSE schema0
             t1 == Append(trace, Event("validatorgetter", Str(validatorgetter), schema))
             t2 == Append(t1, Event("validate", req.json, None))
         IN IF schema0.t = "str" /\ schema0.v \notin DOMAIN definitions
            THEN [err |-> Raise("KeyError", schema0), ret |-> None, trace |-> trace]
            ELSE IF ~ValidatorAccepts(validatorgetter, schema, req.json)
            THEN [err |-> Raise("ValidationError", req.json), ret |-> None, trace |-> t2]
            ELSE CallStale(h, k - 1, req, t2)
    ELSE LET signal == IF Config("OPENAPI_WARN_DEPRECATED") = Str("warn")
                       THEN Event("warnings.warn", Str(req.method), Str(req.url))
                       ELSE Event("log.warning", Str(req.method), Str(req.url))
         IN CallStale(h, k - 1, req, Append(trace, signal))

RECURSIVE Call(_, _, _, _)
Call(h, k, req, trace) ==
    LET layer == funcs[h].layers[k] IN
    IF layer.wrap = "raw"
    THEN \* fn(*args, **kwargs)
         [err |-> NoError, ret |-> HandlerResult(h),
          trace |-> Append(trace, Event("handler", Str(h), req.view_args))]
    ELSE IF layer.wrap = "schema"
    THEN \* OpenAPI.schema.wrapper.inner
         LET schema0 == Attrs(h, k - 1)["schema"]
             schema == IF schema0.t = "str" THEN definitions[schema0.v] ELSE schema0
             t1 == Append(trace, Event("validatorgetter", Str(validatorgetter), schema))
             t2 == Append(t1, Event("validate", req.json, None))
         IN IF schema0.t = "str" /\ schema0.v \notin DOMAIN definitions
            THEN [err |-> Raise("KeyError", schema0), ret |-> None, trace |-> trace]
            ELSE IF ~ValidatorAccepts(validatorgetter, schema, req.json)
            THEN [err |-> Raise("ValidationError", req.json), ret |-> None, trace |-> t2]
            ELSE Call(h, k - 1, req, t2)
    ELSE \* OpenAPI.deprecated.call_deprecated
         LET signal == IF Config("OPENAPI_WARN_DEPRECATED") = Str("warn")
                       THEN Event("warnings.warn", Str(req.method), Str(req.url))
                       ELSE Event("log.warning", Str(req.method), Str(req.url))
         IN Call(h, k - 1, req, Append(trace, signal))

\* The URL of a request matching a rule, and the view arguments Flask
\* passes: every placeholder holds the value "7".
RECURSIVE RequestPath(_)
RequestPath(parts) ==
    IF parts = <<>> THEN ""
    ELSE (IF Head(parts).typ.t = "none" THEN Head(parts).seg ELSE "7")
         \o RequestPath(Tail(parts))

ViewArgs(parts) ==
    LET names == {parts[i].seg : i \in {j \in 1..Len(parts) : parts[j].typ.t = "str"}}
    IN Dict([n \in names |-> Str("7")])

RequestFor(parts, method, json) ==
    [method |-> method,
     url |-> "http://localhost" \o RequestPath(parts),
     json |-> json,
     view_args |-> ViewArgs(parts)]

Request(rule, method, json) == RequestFor(parse_rule(rule.rule).parts, method, json)

\* Flask dispatching a request to the view function routed for site h.
Dispatch(h, method, json) ==
    Call(h, RuleOf(h).layer, Request(RuleOf(h), method, json), <<>>)

-----------------------------------------------------------------------------
(* The state after app = Flask(...); openapi = OpenAPI(app).               *)

\* _DEFAULT_CONFIG, and the two Flask keys the extension reads.
DefaultConfig ==
    [k \in {"OPENAPI_BASE_PATH", "OPENAPI_INFO_TITLE", "OPENAPI_INFO_DESCRIPTION",
            "OPENAPI_INFO_TERMS_OF_SERVICE", "OPENAPI_INFO_CONTACT",
            "OPENAPI_INFO_LICENSE", "OPENAPI_INFO_VERSION", "OPENAPI_SHOW_HOST",
            "OPENAPI_SWAGGER_JSON_URL", "OPENAPI_SWAGGER_YAML_URL",
            "OPENAPI_WARN_DEPRECATED", "SERVER_NAME", "PREFERRED_URL_SCHEME"} |->
        CASE k = "OPENAPI_SHOW_HOST" -> Bool(FALSE)
          [] k = "OPENAPI_SWAGGER_JSON_URL" -> Str("/swagger.json")
          [] k = "OPENAPI_SWAGGER_YAML_URL" -> Str("/swagger.yaml")
          [] k = "OPENAPI_WARN_DEPRECATED" -> Str("warn")
          [] k = "PREFERRED_URL_SCHEME" -> Str("http")
          [] OTHER -> None]

\* The settings the application may change.
ConfigChoices ==
    { <<"OPENAPI_SHOW_HOST", Bool(TRUE)>>,
      <<"SERVER_NAME", Str("api.example.com")>>,
      <<"SERVER_NAME", Str("")>>,
      <<"PREFERRED_URL_SCHEME", None>> }

\* init_app: the two handlers serving the document, each described by
\* response(OK, ...) applied above app.route.
ServingHandler(doc) ==
    response_decorator(NewFunction(Str(doc)), HTTPStatus(200),
        Dict([k \in {"description"} |-> Str("This OpenAPI specification document.")]))

\* The functions of the application and of Flask, before any decorator.
\* inspect.getdoc gives '' for the empty docstring of h1 and None for h2,
\* which has none.
InitFuncs ==
    [h \in Sites \cup BuiltinFunctions |->
        CASE h = "h1" -> NewFunction(Str(""))
          [] h = "h2" -> NewFunction(None)
          [] h = "static" -> NewFunction(Str("Function used internally to send static files."))
          [] h = "json_handler" -> ServingHandler("Get the swagger object in JSON format.")
          [] h = "yaml_handler" -> ServingHandler("Get the swagger object in YAML format.")]

NewRule(rule, methods, endpoint, layer) ==
    [rule |-> rule, methods |-> RuleMethods(methods), endpoint |-> endpoint, layer |-> layer]

\* The rules Flask and init_app add: the static files and the two documents.
InitUrlMap ==
    << NewRule(<<"/static/", "<", "path", ":", "filename", ">">>, {"GET"}, "static", 1),
       NewRule(<<"/swagger.json">>, {"GET"}, "json_handler", 1),
       NewRule(<<"/swagger.yaml">>, {"GET"}, "yaml_handler", 1) >>

Last(op, args, err, ret) == [op |-> op, args |-> args, err |-> err, ret |-> ret]
Outcome(op, args, r) == Last(op, args, r.err, r.value)

Init ==
    /\ definitions = EmptyMap
    /\ responses = EmptyMap
    /\ tagsReg = EmptyMap
    /\ validatorgetter = "OpenAPISchemaValidator"
    /\ config = DefaultConfig
    /\ funcs = InitFuncs
    /\ url_map = InitUrlMap
    /\ template = <<>>
    /\ contact = NoContact
    /\ stack = NoStack
    /\ nops = 0
    /\ last = Last("init", None, NoError, None)

-----------------------------------------------------------------------------
(* The operations.                                                         *)

AddDefinition(definition, name) ==
    /\ nops < MaxOps
    /\ LET r == add_definition(definition, name) IN
       /\ definitions' = r.definitions
       /\ nops' = IF r.err.type = "none" THEN nops + 1 ELSE nops
       /\ last' = Last("add_definition", [definition |-> definition, name |-> name],
                       r.err, None)
    /\ UNCHANGED <<responses, tagsReg, validatorgetter, config, funcs, url_map, template, contact, stack>>

AddResponse(name, response) ==
    /\ nops < MaxOps
    /\ responses' = add_response(name, response)
    /\ nops' = nops + 1
    /\ last' = Last("add_response", [name |-> name, response |-> response], NoError, None)
    /\ UNCHANGED <<definitions, tagsReg, validatorgetter, config, funcs, url_map, template, contact, stack>>

SchemaDec(h, schema) ==
    /\ nops < MaxOps
    /\ funcs' = [funcs EXCEPT ![h] = schema_decorator(@, schema)]
    /\ nops' = nops + 1
    /\ last' = Last("schema", [h |-> h, schema |-> schema], NoError, None)
    /\ UNCHANGED <<definitions, responses, tagsReg, validatorgetter, config, url_map, template, contact, stack>>

TagDec(h, tags) ==
    /\ nops < MaxOps
    /\ funcs' = [funcs EXCEPT ![h] = tag_decorator(@, tags)]
    /\ tagsReg' = tag_registry(tags)
    /\ nops' = nops + 1
    /\ last' = Last("tag", [h |-> h, tags |-> tags], NoError, None)
    /\ UNCHANGED <<definitions, responses, validatorgetter, config, url_map, template, contact, stack>>

DeprecatedDec(h) ==
    /\ nops < MaxOps
    /\ funcs' = [funcs EXCEPT ![h] = deprecated_decorator(@)]
    /\ nops' = nops + 1
    /\ last' = Last("deprecated", [h |-> h], NoError, None)
    /\ UNCHANGED <<definitions, responses, tagsReg, validatorgetter, config, url_map, template, contact, stack>>

ResponseDec(h, status_code, response) ==
    /\ nops < MaxOps
    /\ funcs' = [funcs EXCEPT ![h] = response_decorator(@, status_code, response)]
    /\ nops' = nops + 1
    /\ last' = Last("response", [h |-> h, status_code |-> status_code,
                                 response |-> response], NoError, None)
    /\ UNCHANGED <<definitions, responses, tagsReg, validatorgetter, config, url_map, template, contact, stack>>

\* The def statement of site h: its whole decorator stack is applied.
Def(h) ==
    /\ stack[h] # <<>>
    /\ funcs[h] = InitFuncs[h]
    /\ funcs' = [funcs EXCEPT ![h] = DecorateAll(@, stack[h])]
    /\ tagsReg' = tag_registry(StackTags(stack[h]))
    /\ last' = Last("def", [h |-> h], NoError, None)
    /\ UNCHANGED <<definitions, responses, validatorgetter, config, url_map, template,
                   contact, stack, nops>>

\* @app.route(rule, methods=...) on the function site h stands at.
Route(h, segs, methods) ==
    /\ nops < MaxOps
    /\ ~Routed(h)
    /\ Accepted(RuleTokens(segs))
    /\ url_map' = Append(url_map, NewRule(RuleTokens(segs), methods, h, TopLayer(h)))
    /\ nops' = nops + 1
    /\ last' = Last("route", [h |-> h, rule |-> segs, methods |-> methods], NoError, None)
    /\ UNCHANGED <<definitions, responses, tagsReg, validatorgetter, config, funcs, template, contact, stack>>

\* app.config[key] = value
Configure(key, value) ==
    /\ nops < MaxOps
    /\ config[key] # value
    /\ config' = [config EXCEPT ![key] = value]
    /\ nops' = nops + 1
    /\ last' = Last("config", [key |-> key, value |-> value], NoError, None)
    /\ UNCHANGED <<definitions, responses, tagsReg, validatorgetter, funcs, url_map, template, contact, stack>>

SetValidatorgetterOnce(fn) ==
    /\ nops < MaxOps
    /\ validatorgetter # fn
    /\ validatorgetter' = IF validatorgetter = "OpenAPISchemaValidator" THEN fn ELSE validatorgetter
    /\ nops' = nops + 1
    /\ last' = Last("validatorgetter", [fn |-> fn], NoError, None)
    /\ UNCHANGED <<definitions, responses, tagsReg, config, funcs, url_map, template, contact, stack>>

\* @openapi.validatorgetter
SetValidatorgetter(fn) ==
    /\ nops < MaxOps
    /\ validatorgetter # fn
    /\ validatorgetter' = fn
    /\ nops' = nops + 1
    /\ last' = Last("validatorgetter", [fn |-> fn], NoError, None)
    /\ UNCHANGED <<definitions, responses, tagsReg, config, funcs, url_map, template, contact, stack>>

\* The orders url_map.iter_rules() may yield the rules in. The rules of
\* Flask and init_app share no path with the application's, so the model
\* keeps them first and lets the application's rules come in any order.
ReadOrders ==
    LET n == Len(url_map)
        own == (Len(InitUrlMap) + 1)..n
    IN {[i \in 1..n |-> IF i \in own THEN p[i] ELSE i] : p \in Permutations(own)}

ReadSwaggerDraining(order) ==
    /\ last' = Outcome("swagger", [order |-> order], Swagger(order))
    /\ definitions' = EmptyMap
    /\ UNCHANGED <<responses, tagsReg, validatorgetter, config, funcs,
                   url_map, template, contact, stack, nops>>

\* Reading openapi.swagger.
ReadSwagger(order) ==
    /\ last' = Outcome("swagger", [order |-> order], Swagger(order))
    /\ UNCHANGED <<definitions, responses, tagsReg, validatorgetter, config, funcs,
                   url_map, template, contact, stack, nops>>

\* Reading openapi.paths.
ReadPaths(order) ==
    /\ last' = Outcome("paths", [order |-> order], Paths(order))
    /\ UNCHANGED <<definitions, responses, tagsReg, validatorgetter, config, funcs,
                   url_map, template, contact, stack, nops>>

RequestOutcome(args, r) ==
    Last("request", args, r.err, [value |-> r.ret, trace |-> r.trace])

\* A request for the rule of site h.
Invoke(h, method, json) ==
    /\ Routed(h)
    /\ method \in RuleOf(h).methods \ {"OPTIONS"}
    /\ last' = RequestOutcome([h |-> h, method |-> method, json |-> json],
                              Dispatch(h, method, json))
    /\ UNCHANGED <<definitions, responses, tagsReg, validatorgetter, config, funcs,
                   url_map, template, contact, stack, nops>>

GetOutcome(args, r) ==
    IF r.err.type # "none" THEN Last("get", args, r.err, None)
    ELSE Last("get", args, NoError, Served(args.h, r))

GetStale(h, order) ==
    /\ h \in {"json_handler", "yaml_handler"}
    /\ last' = GetOutcome([h |-> h, order |-> order], Document(PathsLoop(InitUrlMap, EmptyMap)))
    /\ UNCHANGED <<definitions, responses, tagsReg, validatorgetter, config, funcs,
                   url_map, template, contact, stack, nops>>

\* GET on the path of json_handler or yaml_handler.
Get(h, order) ==
    /\ h \in {"json_handler", "yaml_handler"}
    /\ last' = GetOutcome([h |-> h, order |-> order], Swagger(order))
    /\ UNCHANGED <<definitions, responses, tagsReg, validatorgetter, config, funcs,
                   url_map, template, contact, stack, nops>>

UrlOutcome(args, r) ==
    Last("parse_werkzeug_url", args, r.err, [path |-> r.path, parameters |-> r.parameters])

\* Calling utils.parse_werkzeug_url on the template.
ParseUrl ==
    /\ last' = UrlOutcome([url |-> RuleTokens(template)],
                          parse_werkzeug_url(RuleTokens(template)))
    /\ UNCHANGED <<definitions, responses, tagsReg, validatorgetter, config, funcs,
                   url_map, template, contact, stack, nops>>

\* Calling utils.parse_contact_string on the contact string.
ParseContact ==
    /\ last' = Last("parse_contact_string", [string |-> contact.chars], NoError,
                    parse_contact_string(contact.chars))
    /\ UNCHANGED <<definitions, responses, tagsReg, validatorgetter, config, funcs,
                   url_map, template, contact, stack, nops>>

-----------------------------------------------------------------------------
(* Specifications. Each lets the application perform the operations a      *)
(* group of properties depends on, with arguments from small sets.         *)

ItemsRule == <<Lit("/items/")>>
ItemRule == <<Lit("/items/"), Var("int", "id")>>
RegexRule == <<Lit("/items/"), Var("regex", "id")>>

\* Definitions, schema references, routes and the assembled document.
Next ==
    \/ \E d \in {SchemaObject, SchemaTitled}, n \in {None, Str(""), Str("Spam")} :
          AddDefinition(d, n)
    \/ \E h \in Sites, s \in {SchemaSpam, Str("Object"), Str("Spam")} : SchemaDec(h, s)
    \/ \E h \in Sites, segs \in {ItemsRule, RegexRule} : Route(h, segs, {"POST"})
    \/ \E o \in ReadOrders : ReadSwagger(o)
    \/ \E o \in ReadOrders : ReadPaths(o)

Spec == Init /\ [][Next]_vars

\* Tags, responses, deprecation, configuration and the assembled document.
NextMeta ==
    \/ \E h \in Sites, t \in TagArgs : TagDec(h, t)
    \/ DeprecatedDec("h1")
    \/ ResponseDec("h1", HTTPStatus(200), Dict([k \in {"description"} |-> Str("OK")]))
    \/ \E h \in Sites, segs \in {ItemsRule, ItemRule} : Route(h, segs, {"GET"})
    \/ \E c \in ConfigChoices : Configure(c[1], c[2])
    \/ AddDefinition(SchemaTitled, None)
    \/ AddResponse("NotFound", Dict([k \in {"description"} |-> Str("Not found")]))
    \/ \E o \in ReadOrders : ReadSwagger(o)

SpecMeta == Init /\ [][NextMeta]_vars

\* Requests to a view function behind the schema and deprecated wrappers.
NextCall ==
    \/ \E d \in {SchemaObject, SchemaSpam} : AddDefinition(d, Str("Spam"))
    \/ \E s \in {SchemaSpam, Str("Spam")} : SchemaDec("h1", s)
    \/ DeprecatedDec("h1")
    \/ Configure("OPENAPI_WARN_DEPRECATED", Str("log"))
    \/ \E fn \in {"custom", "OpenAPISchemaValidator"} : SetValidatorgetter(fn)
    \/ \E segs \in {ItemsRule, ItemRule} : Route("h1", segs, {"POST"})
    \/ \E b \in Bodies : Invoke("h1", "POST", b)

SpecCall == Init /\ [][NextCall]_vars

\* URL rules: every sequence of at most MaxSegs segments, translated by
\* itself and as the rule of a routed view.
Segments ==
    {Lit("/items/"), Lit("/x"), Var("", "x"), Var("int", "x")}
        \cup {Var(c, "id") : c \in Converters \cup {""}}
Templates == UNION {[1..n -> Segments] : n \in 0..MaxSegs}

InitUrl ==
    /\ definitions = EmptyMap
    /\ responses = EmptyMap
    /\ tagsReg = EmptyMap
    /\ validatorgetter = "OpenAPISchemaValidator"
    /\ config = DefaultConfig
    /\ funcs = InitFuncs
    /\ url_map = InitUrlMap
    /\ template \in Templates
    /\ contact = NoContact
    /\ stack = NoStack
    /\ nops = 0
    /\ last = Last("init", None, NoError, None)

NextUrl ==
    \/ ParseUrl
    \/ Route("h1", template, {"GET"})
    \/ \E o \in ReadOrders : ReadPaths(o)

SpecUrl == InitUrl /\ [][NextUrl]_vars

\* Responses: described on the view functions under every kind of status
\* code, registered by name, and read back in the document.
StatusArgs == {HTTPStatus(200), PyInt(200), Str("200"), PyInt(404)}
ResponseArgs ==
    {Dict([k \in {"description"} |-> Str("OK")]),
     Dict([k \in {"description"} |-> Str("Created")]),
     Str("NotFound")}

NextResp ==
    \/ \E h \in Sites, c \in StatusArgs, r \in ResponseArgs : ResponseDec(h, c, r)
    \/ DeprecatedDec("h1")
    \/ AddResponse("NotFound", Dict([k \in {"description"} |-> Str("Not found")]))
    \/ \E h \in Sites : Route(h, ItemsRule, {"GET"})
    \/ \E o \in ReadOrders : ReadSwagger(o)

SpecResp == Init /\ [][NextResp]_vars

\* Contact strings, parsed by themselves.
InitContact ==
    /\ definitions = EmptyMap
    /\ responses = EmptyMap
    /\ tagsReg = EmptyMap
    /\ validatorgetter = "OpenAPISchemaValidator"
    /\ config = DefaultConfig
    /\ funcs = InitFuncs
    /\ url_map = InitUrlMap
    /\ template = <<>>
    /\ contact \in Contacts
    /\ stack = NoStack
    /\ nops = 0
    /\ last = Last("init", None, NoError, None)

NextContact == ParseContact

SpecContact == InitContact /\ [][NextContact]_vars

-----------------------------------------------------------------------------
(* Properties of the definition registry and of schema references.         *)

\* The key a successful add_definition(definition, name) registers under:
\* the explicit name when one is given non-empty, else the schema's title.
RegisteredKey(definition, name) ==
    IF name.t = "str" /\ name.v # "" THEN name.v ELSE DictGet(definition, "title").v

\* C1: every successful add_definition(d, name) registers d under the
\* explicit name when one is given non-empty and under d's title otherwise,
\* never under an empty key, and every document openapi.swagger builds has
\* definitions[k] equal to the schema registered under k, for every key k.
C1_DefinitionRoundTrip ==
    /\ "" \notin DOMAIN definitions
    /\ (last.op = "add_definition" /\ last.err.type = "none") =>
          LET k == RegisteredKey(last.args.definition, last.args.name) IN
          /\ k # ""
          /\ k \in DOMAIN definitions
          /\ definitions[k] = last.args.definition
    /\ (last.op = "swagger" /\ last.err.type = "none" /\ DOMAIN definitions # {}) =>
          /\ "definitions" \in DOMAIN last.ret.v
          /\ DOMAIN last.ret.v["definitions"].v = DOMAIN definitions
          /\ \A k \in DOMAIN definitions :
                last.ret.v["definitions"].v[k] = definitions[k]

\* A document was built while the registry held both a definition named
\* explicitly and one named by its title.
C1_Witness ==
    /\ last.op = "swagger" /\ last.err.type = "none"
    /\ DOMAIN definitions = {"Object", "Spam"}
    /\ definitions["Spam"] = SchemaTitled

\* The routed operations: a rule other than the static one, with a method
\* other than HEAD and OPTIONS.
RoutedOperations ==
    {i \in 1..Len(url_map) :
        /\ url_map[i].endpoint # "static"
        /\ url_map[i].methods \ {"HEAD", "OPTIONS"} # {}}

\* The names that the handler of some routed operation refers to as its
\* schema and that the definition registry does not hold.
UnresolvedRefs ==
    {Attrs(url_map[i].endpoint, url_map[i].layer)["schema"].v : i \in
        {j \in RoutedOperations :
            /\ HasAttr(url_map[j].endpoint, url_map[j].layer, "schema")
            /\ Attrs(url_map[j].endpoint, url_map[j].layer)["schema"].t = "str"
            /\ Attrs(url_map[j].endpoint, url_map[j].layer)["schema"].v
                  \notin DOMAIN definitions}}

\* Every routed template translates: its placeholder types are all keys of
\* the type map.
TemplatesTranslate ==
    \A i \in 1..Len(url_map) :
        url_map[i].endpoint # "static" =>
            parse_werkzeug_url(url_map[i].rule).err.type = "none"

\* C2 as stated: decorating with schema(name) raises nothing, and
\* openapi.paths fails with UnknownDefinitionError(name) if and only if the
\* handler of some routed operation carries a string schema reference that
\* is not a key of the definition registry.
C2_Original ==
    /\ last.op = "schema" => last.err.type = "none"
    /\ last.op = "paths" =>
          /\ last.err.type = "UnknownDefinitionError" <=> UnresolvedRefs # {}
          /\ last.err.type = "UnknownDefinitionError" => last.err.arg.v \in UnresolvedRefs

\* C2, amended: decorating with schema(name) raises nothing; when
\* openapi.paths fails with UnknownDefinitionError(name), name is a string
\* schema reference of a routed operation's handler that the registry does
\* not hold; and when every routed template translates, openapi.paths fails
\* with UnknownDefinitionError if and only if there is such a reference.
C2_AssemblyTimeResolution ==
    /\ last.op = "schema" => last.err.type = "none"
    /\ last.op = "paths" =>
          /\ last.err.type = "UnknownDefinitionError" => last.err.arg.v \in UnresolvedRefs
          /\ TemplatesTranslate =>
                (last.err.type = "UnknownDefinitionError" <=> UnresolvedRefs # {})
          /\ (TemplatesTranslate /\ UnresolvedRefs = {}) => last.err.type = "none"

\* openapi.paths failed on a name the registry does not hold, while the
\* registry held another definition.
C2_Witness ==
    /\ last.op = "paths"
    /\ last.err = Raise("UnknownDefinitionError", Str("Spam"))
    /\ "Object" \in DOMAIN definitions

\* C6: add_definition without a name, on a schema without a title, raises
\* UnnamedDefinitionError and leaves the definition registry as it was.
C6_UnnamedLeavesRegistry ==
    [][(/\ last'.op = "add_definition"
        /\ last'.args.name = None
        /\ "title" \notin DOMAIN last'.args.definition.v)
       => (/\ last'.err = Raise("UnnamedDefinitionError", last'.args.definition)
           /\ definitions' = definitions)]_vars

\* An unnamed, untitled schema was refused while the registry held a
\* definition.
C6_Witness ==
    /\ last.op = "add_definition"
    /\ last.args.name = None
    /\ last.args.definition = SchemaObject
    /\ last.err.type = "UnnamedDefinitionError"
    /\ DOMAIN definitions # {}

-----------------------------------------------------------------------------
(* Properties of the assembled document.                                   *)

\* The path key of rule i, and whether rule i alone writes its operations:
\* no other rule shares its path key and one of its methods.
PathKey(i) == parse_werkzeug_url(url_map[i].rule).path
OperationMethods(i) == url_map[i].methods \ {"HEAD", "OPTIONS"}
SoleWriter(i) ==
    \A j \in RoutedOperations \ {i} :
        PathKey(j) # PathKey(i) \/ OperationMethods(j) \cap OperationMethods(i) = {}

\* The tag set the routed view function of rule i holds.
TagSetOf(i) ==
    IF HasAttr(url_map[i].endpoint, url_map[i].layer, "tags")
    THEN funcs[url_map[i].endpoint].tags ELSE {}

\* list is the lexicographically sorted list of the strings of T.
IsSortedListOf(list, T) ==
    /\ list.t = "list"
    /\ Len(list.v) = Cardinality(T)
    /\ {list.v[n].v : n \in 1..Len(list.v)} = T
    /\ \A a, b \in 1..Len(list.v) : a < b => StrRank(list.v[a].v) < StrRank(list.v[b].v)

\* C4: in every assembled document, the operation of a routed handler
\* whose tag set is T has tags equal to the sorted list of T when T is not
\* empty, and no tags key when T is empty (also after tag() without names).
C4_OperationTags ==
    (last.op = "swagger" /\ last.err.type = "none") =>
        \A i \in RoutedOperations : SoleWriter(i) =>
            \A m \in OperationMethods(i) :
                LET operation == last.ret.v["paths"].v[PathKey(i)].v[Lower(m)].v IN
                IF TagSetOf(i) = {} THEN "tags" \notin DOMAIN operation
                ELSE "tags" \in DOMAIN operation
                     /\ IsSortedListOf(operation["tags"], TagSetOf(i))

\* A value that is neither null nor an empty string, list or map.
NonEmpty(x) ==
    /\ x.t # "none"
    /\ x.t = "str" => x.v # ""
    /\ x.t = "list" => x.v # <<>>
    /\ x.t = "dict" => DOMAIN x.v # {}

AbsentOrNonEmpty(d, keys) == \A k \in keys \cap DOMAIN d : NonEmpty(d[k])

\* C5: in every assembled document each optional field (description,
\* deprecated, tags, responses of an operation; host, schemes, definitions,
\* responses, tags of the document; parameters of a path) is absent or has
\* a value that is not null and not an empty string, list or map.
C5_OptionalFieldsNonEmpty ==
    (last.op = "swagger" /\ last.err.type = "none") =>
        /\ AbsentOrNonEmpty(last.ret.v, {"host", "schemes", "definitions", "responses", "tags"})
        /\ \A url \in DOMAIN last.ret.v["paths"].v :
              LET item == last.ret.v["paths"].v[url].v IN
              /\ AbsentOrNonEmpty(item, {"parameters"})
              /\ \A key \in DOMAIN item \ {"parameters"} :
                    AbsentOrNonEmpty(item[key].v,
                                     {"description", "deprecated", "tags", "responses"})

\* C8 as stated: the document holds host, equal to the configured server
\* name, if and only if the show-host flag is enabled.
C8_Original ==
    (last.op = "swagger" /\ last.err.type = "none") =>
        /\ "host" \in DOMAIN last.ret.v <=> config["OPENAPI_SHOW_HOST"] = Bool(TRUE)
        /\ "host" \in DOMAIN last.ret.v => last.ret.v["host"] = config["SERVER_NAME"]

\* C8, amended: the document holds host, equal to the configured server
\* name, if and only if the show-host flag is enabled and a server name is
\* configured (SERVER_NAME is not None); otherwise host is absent.
C8_HostShown ==
    (last.op = "swagger" /\ last.err.type = "none") =>
        /\ "host" \in DOMAIN last.ret.v <=>
              (config["OPENAPI_SHOW_HOST"] = Bool(TRUE) /\ config["SERVER_NAME"] # None)
        /\ "host" \in DOMAIN last.ret.v => last.ret.v["host"] = config["SERVER_NAME"]

\* A document was built with the flag enabled and a server name configured.
C8_Witness ==
    /\ last.op = "swagger" /\ last.err.type = "none"
    /\ config["OPENAPI_SHOW_HOST"] = Bool(TRUE)
    /\ config["SERVER_NAME"] = Str("api.example.com")
    /\ "host" \in DOMAIN last.ret.v

-----------------------------------------------------------------------------
(* Properties of requests.                                                 *)

\* The schema wrappers a request for site h passes, outermost first being
\* the highest layer, and the schema each one resolves at request time.
SchemaLayers(h) ==
    {k \in 2..RuleOf(h).layer : funcs[h].layers[k].wrap = "schema"}
Resolves(h, k) ==
    Attrs(h, k - 1)["schema"].t = "str" => Attrs(h, k - 1)["schema"].v \in DOMAIN definitions
ResolvedSchema(h, k) ==
    IF Attrs(h, k - 1)["schema"].t = "str"
    THEN definitions[Attrs(h, k - 1)["schema"].v]
    ELSE Attrs(h, k - 1)["schema"]

EventsAt(trace, ev) == {i \in 1..Len(trace) : trace[i].ev = ev}

\* C3: for every request to a schema-decorated handler, the body is
\* validated against the resolved schema of every gate before the original
\* handler runs; if a validation fails the handler is never called and the
\* validation error propagates; if all succeed the handler is called
\* exactly once with the request's arguments and its return value returned.
C3_ValidationGate ==
    (last.op = "request" /\ SchemaLayers(last.args.h) # {}
        /\ \A k \in SchemaLayers(last.args.h) : Resolves(last.args.h, k)) =>
        LET h == last.args.h
            trace == last.ret.trace
            handler == EventsAt(trace, "handler")
            validate == EventsAt(trace, "validate")
            getter == EventsAt(trace, "validatorgetter")
            schemas == {ResolvedSchema(h, k) : k \in SchemaLayers(h)}
            accepted == \A k \in SchemaLayers(h) :
                            ValidatorAccepts(validatorgetter, ResolvedSchema(h, k),
                                             last.args.json)
        IN /\ \A i \in handler :
                 /\ Cardinality({j \in validate : j < i}) = Cardinality(SchemaLayers(h))
                 /\ {trace[j].b : j \in {g \in getter : g < i}} = schemas
           /\ \A j \in validate : trace[j].a = last.args.json
           /\ ~accepted =>
                 /\ handler = {}
                 /\ last.err = Raise("ValidationError", last.args.json)
           /\ accepted =>
                 /\ Cardinality(handler) = 1
                 /\ \A i \in handler :
                       trace[i] = Event("handler", Str(h),
                                        ViewArgs(parse_rule(RuleOf(h).rule).parts))
                 /\ last.err = NoError
                 /\ last.ret.value = HandlerResult(h)

\* A request with a conforming body passed the gate and reached the handler.
C3_Witness ==
    /\ last.op = "request" /\ last.err = NoError
    /\ SchemaLayers("h1") # {}
    /\ validatorgetter = "OpenAPISchemaValidator"
    /\ \E k \in SchemaLayers("h1") : Attrs("h1", k - 1)["schema"] = SchemaSpam
    /\ last.args.json = Dict([k \in {"spam"} |-> Str("bacon")])
    /\ EventsAt(last.ret.trace, "handler") # {}

\* C7: a request to a handler decorated with schema(name), when name is not
\* a key of the definition registry at that time, fails with
\* UnknownDefinitionError, and the original handler is not called.
C7_GateResolutionFailure ==
    (last.op = "request"
        /\ \E k \in SchemaLayers(last.args.h) :
              /\ ~Resolves(last.args.h, k)
              /\ \A j \in SchemaLayers(last.args.h) : j <= k) =>
        /\ last.err.type = "UnknownDefinitionError"
        /\ EventsAt(last.ret.trace, "handler") = {}

-----------------------------------------------------------------------------
(* Properties of the translation of URL rules.                             *)

\* A rule werkzeug can parse: no variable name is used twice.
DistinctNames(segs) ==
    \A i, j \in 1..Len(segs) :
        (i < j /\ segs[i].kind = "var" /\ segs[j].kind = "var") => segs[i].name # segs[j].name

Placeholders(segs) == {i \in 1..Len(segs) : segs[i].kind = "var"}

\* The type the mapping gives a placeholder written with converter conv.
SwaggerType(conv) ==
    CASE conv = "int" -> "integer"
      [] conv = "float" -> "number"
      [] OTHER -> "string"

RECURSIVE ExpectedPath(_)
ExpectedPath(segs) ==
    IF segs = <<>> THEN ""
    ELSE (IF Head(segs).kind = "lit" THEN Head(segs).name
          ELSE "{" \o Head(segs).name \o "}") \o ExpectedPath(Tail(segs))

RECURSIVE ExpectedParameters(_)
ExpectedParameters(segs) ==
    IF segs = <<>> THEN <<>>
    ELSE (IF Head(segs).kind = "lit" THEN <<>>
          ELSE << Dict([k \in {"name", "in", "required", "type"} |->
                     CASE k = "name" -> Str(Head(segs).name)
                       [] k = "in" -> Str("path")
                       [] k = "required" -> Bool(TRUE)
                       [] k = "type" -> Str(SwaggerType(Head(segs).conv))]) >>)
         \o ExpectedParameters(Tail(segs))

\* C9: for a rule whose placeholders have no type or one of string, int,
\* float, path, any, uuid, parse_werkzeug_url returns the rule with every
\* placeholder replaced by {name} and the literals unchanged, and one
\* descriptor {name, in: path, required: true, type} per placeholder in
\* order, type being integer for int, number for float, string otherwise;
\* a rule without placeholders yields itself and an empty list.
C9_UrlTranslation ==
    (last.op = "parse_werkzeug_url" /\ DistinctNames(template)
        /\ \A i \in Placeholders(template) :
              template[i].conv \in {"", "string", "int", "float", "path", "any", "uuid"}) =>
        /\ last.err = NoError
        /\ last.ret.path = ExpectedPath(template)
        /\ last.ret.parameters = List(ExpectedParameters(template))
        /\ Placeholders(template) = {} =>
              /\ last.ret.path = Concat(RuleTokens(template))
              /\ last.ret.parameters = List(<<>>)

\* A rule with a typed and an untyped placeholder was translated.
C9_Witness ==
    /\ last.op = "parse_werkzeug_url"
    /\ template = <<Lit("/items/"), Var("int", "id"), Var("", "x")>>
    /\ last.ret.path = "/items/{id}{x}"

\* The first placeholder of segs whose type is not in known.
FirstOutside(segs, known) ==
    LET S == {i \in Placeholders(segs) : segs[i].conv \notin known}
    IN segs[CHOOSE i \in S : \A j \in S : i <= j].conv

-----------------------------------------------------------------------------
(* Properties of the parsing of contact strings.                           *)

\* The map holding exactly the groups a contact string of the form has.
PresentGroups(f) ==
    [k \in {g \in {"name", "email", "url"} : f[g] # <<>>} |-> Str(Concat(f[k]))]

\* C11: for a string of the form name <email> (url), each group possibly
\* left out, parse_contact_string returns a map holding exactly the groups
\* that are present, the name without the blanks around it; no key holds
\* an empty string or null; and "<>" and "" both give the empty map.
C11_ContactGroups ==
    last.op = "parse_contact_string" =>
        /\ contact.formed => last.ret = Dict(PresentGroups(contact.form))
        /\ contact.chars \in {<<>>, <<"<", ">">>} => last.ret = Dict(EmptyMap)
        /\ \A k \in DOMAIN last.ret.v : last.ret.v[k] \notin {None, Str("")}

\* A string with all three groups and blanks around each was parsed.
C11_Witness ==
    /\ last.op = "parse_contact_string"
    /\ contact.chars = <<" ", "O", "a", "k", " ", "<", "o", "@", "k", ">", " ",
                         "(", "/", "o", ")", " ">>
    /\ DOMAIN last.ret.v = {"name", "email", "url"}
    /\ last.ret.v["name"] = Str("Oak")

\* Path items: rules that share a path, inline and named schemas, and
\* rules that carry no method of their own.
StrRule == <<Lit("/items/"), Var("", "id")>>
SchemaEmpty == Dict(EmptyMap)

NextItems ==
    \/ \E s \in {SchemaEmpty, SchemaObject, Str("Spam")} : SchemaDec("h1", s)
    \/ AddDefinition(SchemaObject, Str("Spam"))
    \/ \E h \in Sites, segs \in {ItemRule, StrRule},
          methods \in {{"GET"}, {"OPTIONS"}} : Route(h, segs, methods)
    \/ \E o \in ReadOrders : ReadSwagger(o)

SpecItems == Init /\ [][NextItems]_vars

\* The served documents, between registrations.
NextServe ==
    \/ AddDefinition(SchemaTitled, None)
    \/ AddDefinition(SchemaObject, Str("Spam"))
    \/ AddResponse("NotFound", Dict([k \in {"description"} |-> Str("Not found")]))
    \/ TagDec("h1", {"foo"})
    \/ SchemaDec("h1", Str("Spam"))
    \/ \E h \in Sites : Route(h, ItemsRule, {"GET"})
    \/ \E h \in {"json_handler", "yaml_handler"}, o \in ReadOrders : Get(h, o)

SpecServe == Init /\ [][NextServe]_vars

\* Decorator stacks: h1 carries any stack, h2 the same decorators once each
\* in the fixed order.
InitOrder ==
    /\ definitions = EmptyMap
    /\ responses = EmptyMap
    /\ tagsReg = EmptyMap
    /\ validatorgetter = "OpenAPISchemaValidator"
    /\ config = DefaultConfig
    /\ funcs = InitFuncs
    /\ url_map = InitUrlMap
    /\ template = <<>>
    /\ contact = NoContact
    /\ stack \in {[h \in Sites |-> IF h = "h1" THEN q ELSE Canonical(SeqToSet(q))] :
                     q \in Stacks}
    /\ nops = 0
    /\ last = Last("init", None, NoError, None)

NextOrder ==
    \/ \E h \in Sites : Def(h)
    \/ Route("h1", ItemsRule, {"GET"})
    \/ Route("h2", ItemRule, {"GET"})
    \/ AddDefinition(SchemaObject, Str("Spam"))

SpecOrder == InitOrder /\ [][NextOrder]_vars

-----------------------------------------------------------------------------
(* Properties of the responses described on view functions.                *)

\* The decimal string of a status code argument.
StatusKey(status_code) ==
    CASE status_code \in {HTTPStatus(200), PyInt(200), Str("200")} -> "200"
      [] status_code \in {HTTPStatus(404), PyInt(404), Str("404")} -> "404"

\* The body as stored: a reference object for a name, the map as given.
StoredBody(response) ==
    IF response.t = "str"
    THEN Dict([k \in {"$ref"} |-> Str("#/responses/" \o response.v)])
    ELSE response

\* C12: each application of response(status, body) to a handler leaves the
\* handler's responses map as it was except at the key that is the decimal
\* string of the status (the same key for an HTTPStatus member, an int and
\* a string of the same code), which then holds the body, a name n stored
\* as {$ref: '#/responses/n'} and a map as given; nothing else changes a
\* responses map. So after any sequence of applications every status used
\* holds the body of its last application.
C12_ResponsesMap ==
    [][/\ last'.op = "response" =>
            /\ "responses" \in DOMAIN
                  funcs'[last'.args.h].layers[Len(funcs'[last'.args.h].layers)].attrs
            /\ DOMAIN funcs'[last'.args.h].responses =
                  DOMAIN funcs[last'.args.h].responses \cup {StatusKey(last'.args.status_code)}
            /\ funcs'[last'.args.h].responses[StatusKey(last'.args.status_code)] =
                  StoredBody(last'.args.response)
            /\ \A k \in DOMAIN funcs[last'.args.h].responses \ {StatusKey(last'.args.status_code)} :
                  funcs'[last'.args.h].responses[k] = funcs[last'.args.h].responses[k]
            /\ \A g \in DOMAIN funcs \ {last'.args.h} : funcs'[g].responses = funcs[g].responses
       /\ last'.op # "response" =>
            \A g \in DOMAIN funcs : funcs'[g].responses = funcs[g].responses]_vars

\* Three applications to h1 and nothing else: a status given as a string
\* took the place of an earlier body under the same key.
C12_Witness ==
    /\ last.op = "response" /\ last.args.h = "h1"
    /\ last.args.status_code = Str("200") /\ last.args.response = Str("NotFound")
    /\ nops = 3 /\ TopLayer("h1") = 1 /\ url_map = InitUrlMap /\ responses = EmptyMap
    /\ funcs["h2"].responses = EmptyMap
    /\ DOMAIN funcs["h1"].responses = {"200", "404"}
    /\ funcs["h1"].responses["200"] = StoredBody(Str("NotFound"))

\* The names the response references of an operation object refer to.
ResponseRefs(operation) ==
    IF "responses" \in DOMAIN operation
    THEN {operation["responses"].v[c].v["$ref"].v :
            c \in {x \in DOMAIN operation["responses"].v :
                      "$ref" \in DOMAIN operation["responses"].v[x].v}}
    ELSE {}

\* C13: in every document assembly produces, each response reference
\* {$ref: '#/responses/n'} of a routed handler names a key n of the response
\* registry, the top-level responses of the document.
C13_ResponseRefsResolve ==
    (last.op = "swagger" /\ last.err.type = "none") =>
        \A url \in DOMAIN last.ret.v["paths"].v :
            \A key \in DOMAIN last.ret.v["paths"].v[url].v \ {"parameters"} :
                \A r \in ResponseRefs(last.ret.v["paths"].v[url].v[key].v) :
                    /\ "responses" \in DOMAIN last.ret.v
                    /\ \E n \in DOMAIN last.ret.v["responses"].v :
                          r = "#/responses/" \o n

-----------------------------------------------------------------------------
(* Properties of the tag registry.                                         *)

\* The description of the tag t.
TagDescription(t) == Dict([k \in {"name"} |-> Str(t)])

\* C14: the tag registry holds exactly the names ever passed to tag (each
\* application adds its names, nothing else changes the keys), each mapped
\* to the one description {name: that name}; every tag in a handler's tag
\* set is a key of the registry; and the top-level tags of every document
\* is the list of these descriptions in ascending order of name, absent
\* when the registry is empty.
C14_TagRegistry ==
    /\ [](/\ \A t \in DOMAIN tagsReg : tagsReg[t] = TagDescription(t)
          /\ \A h \in DOMAIN funcs : funcs[h].tags \subseteq DOMAIN tagsReg
          /\ (last.op = "swagger" /\ last.err.type = "none") =>
                IF DOMAIN tagsReg = {}
                THEN "tags" \notin DOMAIN last.ret.v
                ELSE /\ "tags" \in DOMAIN last.ret.v
                     /\ IsSortedListOf([t |-> "list",
                                        v |-> [n \in DOMAIN last.ret.v["tags"].v |->
                                                  last.ret.v["tags"].v[n].v["name"]]],
                                       DOMAIN tagsReg)
                     /\ \A n \in DOMAIN last.ret.v["tags"].v :
                           last.ret.v["tags"].v[n] =
                               TagDescription(last.ret.v["tags"].v[n].v["name"].v))
    /\ [][DOMAIN tagsReg' =
            IF last'.op = "tag" THEN DOMAIN tagsReg \cup last'.args.tags
                                ELSE DOMAIN tagsReg]_vars

\* Two handlers tagged with different names, and the document lists both.
C14_Witness ==
    /\ last.op = "swagger" /\ last.err.type = "none"
    /\ funcs["h1"].tags = {"foo"} /\ funcs["h2"].tags = {"bar"}
    /\ last.ret.v["tags"] = List(<<TagDescription("bar"), TagDescription("foo")>>)

-----------------------------------------------------------------------------
(* Properties of the validator getter.                                     *)

\* The gate at layer k is reached by a request with this body: every gate
\* above it resolved its schema and accepted the body.
Reached(h, k, json) ==
    \A g \in SchemaLayers(h) :
        g > k => /\ Resolves(h, g)
                 /\ ValidatorAccepts(validatorgetter, ResolvedSchema(h, g), json)

\* C15: one validator getter is active at any time: OpenAPISchemaValidator
\* (Draft 4) at first, and after validatorgetter(fn) the fn registered last.
\* In every invocation of a schema-decorated handler, each gate the request
\* reaches with a schema that resolves calls the getter active at that time
\* with the resolved schema and then validate(request body) on the result,
\* whenever the handler was decorated.
C15_ValidatorHook ==
    /\ validatorgetter = "OpenAPISchemaValidator"
    /\ [][validatorgetter' = IF last'.op = "validatorgetter"
                             THEN last'.args.fn ELSE validatorgetter]_vars
    /\ []((last.op = "request" /\ SchemaLayers(last.args.h) # {}) =>
            /\ \A i \in EventsAt(last.ret.trace, "validatorgetter") :
                  /\ last.ret.trace[i].a = Str(validatorgetter)
                  /\ i + 1 \in EventsAt(last.ret.trace, "validate")
                  /\ last.ret.trace[i + 1].a = last.args.json
            /\ \A j \in EventsAt(last.ret.trace, "validate") :
                  j - 1 \in EventsAt(last.ret.trace, "validatorgetter")
            /\ \A k \in SchemaLayers(last.args.h) :
                  (Reached(last.args.h, k, last.args.json) /\ Resolves(last.args.h, k)) =>
                      \E i \in EventsAt(last.ret.trace, "validatorgetter") :
                          last.ret.trace[i].b = ResolvedSchema(last.args.h, k)
            /\ Cardinality(EventsAt(last.ret.trace, "validatorgetter")) =
                  Cardinality({k \in SchemaLayers(last.args.h) :
                                  /\ Reached(last.args.h, k, last.args.json)
                                  /\ Resolves(last.args.h, k)}))

\* The application's getter decides: a body Draft 4 would refuse for the
\* schema of the gate passes, and the handler runs.
C15_Witness ==
    /\ last.op = "request" /\ last.err = NoError
    /\ validatorgetter = "custom"
    /\ \E k \in SchemaLayers("h1") :
          /\ Resolves("h1", k)
          /\ ~Draft4Valid(ResolvedSchema("h1", k), last.args.json)
    /\ \E i \in EventsAt(last.ret.trace, "validatorgetter") :
          last.ret.trace[i].a = Str("custom")
    /\ EventsAt(last.ret.trace, "handler") # {}

-----------------------------------------------------------------------------
(* Properties of deprecated handlers.                                      *)

\* The deprecation wrappers a request to the rule of h passes through.
DeprecatedLayers(h) ==
    {k \in 2..RuleOf(h).layer : funcs[h].layers[k].wrap = "deprecated"}

\* The deprecation signals of a trace.
Signals(trace) == EventsAt(trace, "warnings.warn") \cup EventsAt(trace, "log.warning")

\* The signal of the mode: a DeprecationWarning or a log entry.
SignalOfMode ==
    CASE Config("OPENAPI_WARN_DEPRECATED") = Str("warn") -> "warnings.warn"
      [] Config("OPENAPI_WARN_DEPRECATED") = Str("log") -> "log.warning"

\* C16 as stated: every invocation of a handler decorated with deprecated
\* emits exactly one deprecation signal of the mode with the method and URL
\* of the request, whatever is stacked around it and whether or not a
\* schema gate accepts the body, and the original handler is then invoked
\* once and its result returned.
C16_Original ==
    (last.op = "request" /\ DeprecatedLayers(last.args.h) # {}) =>
        /\ Cardinality(Signals(last.ret.trace)) = 1
        /\ \A i \in Signals(last.ret.trace) :
              /\ last.ret.trace[i].ev = SignalOfMode
              /\ last.ret.trace[i].a = Str(last.args.method)
              /\ last.ret.trace[i].b =
                    Str(Request(RuleOf(last.args.h), last.args.method, last.args.json).url)
        /\ Cardinality(EventsAt(last.ret.trace, "handler")) = 1
        /\ last.err = NoError
        /\ last.ret.value = HandlerResult(last.args.h)

\* C16: in every invocation of a handler decorated with deprecated, each
\* deprecation wrapper the request reaches (every schema gate above it
\* resolved and accepted the body) emits one signal of the mode with the
\* method and URL of the request, and no other signal is emitted; a signal
\* never blocks the call: when every gate accepts, the original handler is
\* invoked once, after the signals, and its result returned; when a gate
\* refuses, the handler is not invoked.
C16_DeprecationSignals ==
    (last.op = "request" /\ DeprecatedLayers(last.args.h) # {}) =>
        /\ Cardinality(Signals(last.ret.trace)) =
              Cardinality({k \in DeprecatedLayers(last.args.h) :
                              Reached(last.args.h, k, last.args.json)})
        /\ \A i \in Signals(last.ret.trace) :
              /\ last.ret.trace[i].ev = SignalOfMode
              /\ last.ret.trace[i].a = Str(last.args.method)
              /\ last.ret.trace[i].b =
                    Str(Request(RuleOf(last.args.h), last.args.method, last.args.json).url)
              /\ \A j \in EventsAt(last.ret.trace, "handler") : i < j
        /\ IF Reached(last.args.h, 1, last.args.json)
           THEN /\ Cardinality(EventsAt(last.ret.trace, "handler")) = 1
                /\ last.err = NoError
                /\ last.ret.value = HandlerResult(last.args.h)
           ELSE /\ EventsAt(last.ret.trace, "handler") = {}
                /\ last.err # NoError

\* A gate above the deprecation wrapper refuses the body: no signal at all.
C16_Witness ==
    /\ last.op = "request" /\ last.err.type = "ValidationError"
    /\ DeprecatedLayers("h1") # {}
    /\ \E g \in SchemaLayers("h1") : \A k \in DeprecatedLayers("h1") : g > k
    /\ Signals(last.ret.trace) = {}

-----------------------------------------------------------------------------
(* Properties of decorator stacks.                                         *)

\* The def of h was executed and then routed: the rule holds the function
\* the outermost decorator returned.
DefinedAndRouted(h) ==
    /\ funcs[h] = DecorateAll(InitFuncs[h], stack[h])
    /\ Routed(h)
    /\ RuleOf(h).layer = TopLayer(h)

\* What _process_rule gives without the description, which comes from the
\* docstring and not from a decorator.
Undescribed(r) ==
    IF r.err.type = "none"
    THEN [r EXCEPT !.value = Dict([k \in DOMAIN r.value.v \ {"description"} |-> r.value.v[k]])]
    ELSE r

\* C17: two handlers whose decorator stacks beneath the route hold the same
\* decorators (schema(ref), tag(*names), response(status, body) with
\* distinct statuses, deprecated), in any order and any of them any number
\* of times, get the same operation object, or the same error.
C17_OrderIndependent ==
    (/\ DefinedAndRouted("h1") /\ DefinedAndRouted("h2")
     /\ SeqToSet(stack["h1"]) = SeqToSet(stack["h2"])) =>
        Undescribed(process_rule(RuleOf("h1"))) = Undescribed(process_rule(RuleOf("h2")))

\* tag, deprecated and the same tag again on h1; deprecated above tag on h2.
C17_Witness ==
    /\ DefinedAndRouted("h1") /\ DefinedAndRouted("h2")
    /\ stack["h1"] = <<DecoratorList[2], DecoratorList[6], DecoratorList[2]>>
    /\ stack["h2"] = <<DecoratorList[2], DecoratorList[6]>>
    /\ process_rule(RuleOf("h1")).value.v["tags"] = List(<<Str("foo")>>)
    /\ process_rule(RuleOf("h1")).value.v["deprecated"] = Bool(TRUE)

-----------------------------------------------------------------------------
(* Properties of repeated reads.                                           *)

-----------------------------------------------------------------------------
(* Properties of the served documents.                                     *)

\* C19: the response to GET on the JSON path or on the YAML path holds the
\* document assembled from the state at the time of the request, whatever
\* was registered, tagged or routed before it, or fails as the assembly
\* fails; the JSON response parses to OpenAPI.swagger and has the content
\* type application/json.
C19_ServedFresh ==
    last.op = "get" =>
        /\ last.err = Swagger(last.args.order).err
        /\ last.err.type = "none" =>
              /\ last.args.h = "json_handler" =>
                    /\ last.ret.content_type = "application/json"
                    /\ JsonLoads(last.ret.body) = Swagger(last.args.order).value
              /\ last.args.h = "yaml_handler" =>
                    YamlLoad(last.ret.body) = Swagger(last.args.order).value

\* The JSON document served after a definition, a tag and a route were
\* added shows all three.
C19_Witness ==
    /\ last.op = "get" /\ last.err.type = "none" /\ last.args.h = "json_handler"
    /\ nops >= 3
    /\ {"definitions", "tags"} \subseteq DOMAIN JsonLoads(last.ret.body).v
    /\ "Spam" \in DOMAIN JsonLoads(last.ret.body).v["definitions"].v
    /\ "/items/" \in DOMAIN JsonLoads(last.ret.body).v["paths"].v
    /\ JsonLoads(last.ret.body).v["tags"] = List(<<TagDescription("foo")>>)

-----------------------------------------------------------------------------
(* Properties of the responses of operations.                              *)

\* The responses of an operation whose handler declares none.
DefaultResponses ==
    Dict([c \in {"200"} |-> Dict([k \in {"description"} |-> Str("OK")])])

\* C20: every operation object of the assembled paths has a responses map,
\* and the operation of a handler that declared no response has the default
\* {'200': {'description': 'OK'}}.
C20_DefaultResponses ==
    (last.op = "swagger" /\ last.err.type = "none") =>
        \A i \in RoutedOperations : SoleWriter(i) =>
            \A m \in OperationMethods(i) :
                /\ "responses" \in DOMAIN last.ret.v["paths"].v[PathKey(i)].v[Lower(m)].v
                /\ ~HasAttr(url_map[i].endpoint, url_map[i].layer, "responses") =>
                      last.ret.v["paths"].v[PathKey(i)].v[Lower(m)].v["responses"] =
                          DefaultResponses

-----------------------------------------------------------------------------
(* Properties of path items.                                               *)

\* The body parameter of a handler whose schema metadata is schema.
ExpectedBodyParameter(schema) ==
    Dict([k \in {"in", "name", "schema"} |->
            CASE k = "in" -> Str("body")
              [] k = "name" -> Str("payload")
              [] k = "schema" ->
                    IF schema.t = "str"
                    THEN Dict([r \in {"$ref"} |-> Str("#/definitions/" \o schema.v)])
                    ELSE schema])

\* C21: an assembled operation has a parameters array holding exactly the
\* body entry {in: 'body', name: 'payload', schema: S} if and only if its
\* handler carries schema metadata, the empty schema {} included; S is the
\* inline schema itself or the reference to the registered name.
C21_BodyParameter ==
    (last.op = "swagger" /\ last.err.type = "none") =>
        \A i \in RoutedOperations : SoleWriter(i) =>
            \A m \in OperationMethods(i) :
                IF HasAttr(url_map[i].endpoint, url_map[i].layer, "schema")
                THEN /\ "parameters" \in
                           DOMAIN last.ret.v["paths"].v[PathKey(i)].v[Lower(m)].v
                     /\ last.ret.v["paths"].v[PathKey(i)].v[Lower(m)].v["parameters"] =
                           List(<<ExpectedBodyParameter(
                                     Attrs(url_map[i].endpoint, url_map[i].layer)["schema"])>>)
                ELSE "parameters" \notin
                           DOMAIN last.ret.v["paths"].v[PathKey(i)].v[Lower(m)].v


\* The rules the assembly does not skip.
NonStatic == {i \in 1..Len(url_map) : url_map[i].endpoint # "static"}

\* The path parameters the translation of rule i gives.
PathParametersOf(i) == parse_werkzeug_url(url_map[i].rule).parameters

\* The places in the iteration order of the rules that write the parameters
\* of the path item url.
ParameterWriters(order, url) ==
    {n \in 1..Len(order) :
        /\ order[n] \in NonStatic
        /\ PathKey(order[n]) = url
        /\ PathParametersOf(order[n]).v # <<>>}

Latest(S) == CHOOSE n \in S : \A o \in S : o <= n

\* C22 as stated: for every rule that is not the static one, the path item
\* of its path key has parameters equal to the rule's own path parameters
\* when there are any and no parameters key otherwise, whatever other rules
\* are registered and in whatever order they are iterated.
C22_Original ==
    (last.op = "swagger" /\ last.err.type = "none") =>
        \A i \in NonStatic :
            IF PathParametersOf(i).v # <<>>
            THEN /\ "parameters" \in DOMAIN last.ret.v["paths"].v[PathKey(i)].v
                 /\ last.ret.v["paths"].v[PathKey(i)].v["parameters"] = PathParametersOf(i)
            ELSE "parameters" \notin DOMAIN last.ret.v["paths"].v[PathKey(i)].v

\* C22: every rule that is not the static one has its path key in the
\* assembled paths, and the parameters of a path item are the path
\* parameters of the rule iterated last among the rules that translate to
\* that key and have any; the item has no parameters key when no such rule
\* exists.
C22_PathParameters ==
    (last.op = "swagger" /\ last.err.type = "none") =>
        /\ \A i \in NonStatic : PathKey(i) \in DOMAIN last.ret.v["paths"].v
        /\ \A url \in DOMAIN last.ret.v["paths"].v :
              IF ParameterWriters(last.args.order, url) = {}
              THEN "parameters" \notin DOMAIN last.ret.v["paths"].v[url].v
              ELSE /\ "parameters" \in DOMAIN last.ret.v["paths"].v[url].v
                   /\ last.ret.v["paths"].v[url].v["parameters"] =
                         PathParametersOf(
                             last.args.order[Latest(ParameterWriters(last.args.order, url))])

\* Two rules that differ in the type of id only: the path item shows the
\* type of the one iterated last, here the string one registered first.
C22_Witness ==
    /\ last.op = "swagger" /\ last.err.type = "none"
    /\ Len(url_map) = 5
    /\ url_map[4].rule = RuleTokens(StrRule) /\ url_map[5].rule = RuleTokens(ItemRule)
    /\ last.args.order = <<1, 2, 3, 5, 4>>
    /\ last.ret.v["paths"].v["/items/{id}"].v["parameters"].v[1].v["type"] = Str("string")


\* The places in the iteration order of the rules that write the operation
\* of method m into the path item url.
OperationWriters(order, url, m) ==
    {n \in 1..Len(order) :
        /\ order[n] \in NonStatic
        /\ PathKey(order[n]) = url
        /\ m \in OperationMethods(order[n])}

\* C23 as stated: for every rule that is not the static one and every
\* method M bound to it, the path item of its path key has the key
\* lowercase(M) mapped to the operation of the rule's handler if and only if
\* M is neither HEAD nor OPTIONS; no path item has a key head or options,
\* and parameters is the only other key a path item may have.
C23_Original ==
    (last.op = "swagger" /\ last.err.type = "none") =>
        /\ \A i \in NonStatic : \A m \in url_map[i].methods :
              (/\ Lower(m) \in DOMAIN last.ret.v["paths"].v[PathKey(i)].v
               /\ last.ret.v["paths"].v[PathKey(i)].v[Lower(m)] =
                     process_rule(url_map[i]).value)
                  <=> m \notin {"HEAD", "OPTIONS"}
        /\ \A url \in DOMAIN last.ret.v["paths"].v :
              DOMAIN last.ret.v["paths"].v[url].v \subseteq {"get", "post", "parameters"}

\* C23: for every rule that is not the static one and every method M bound
\* to it, the path item of its path key has the key lowercase(M) if and
\* only if M is neither HEAD nor OPTIONS, and the key is mapped to the
\* operation of the handler of the rule iterated last among the rules with
\* that path key and that method; no path item has a key head or options,
\* and parameters is the only other key a path item may have.
C23_MethodProjection ==
    (last.op = "swagger" /\ last.err.type = "none") =>
        /\ \A i \in NonStatic : \A m \in url_map[i].methods :
              m \notin {"HEAD", "OPTIONS"} =>
                  /\ Lower(m) \in DOMAIN last.ret.v["paths"].v[PathKey(i)].v
                  /\ last.ret.v["paths"].v[PathKey(i)].v[Lower(m)] =
                        process_rule(url_map[last.args.order[
                            Latest(OperationWriters(last.args.order, PathKey(i), m))]]).value
        /\ \A url \in DOMAIN last.ret.v["paths"].v :
              /\ DOMAIN last.ret.v["paths"].v[url].v \subseteq {"get", "post", "parameters"}
              /\ \A m \in {"GET", "POST"} :
                    Lower(m) \in DOMAIN last.ret.v["paths"].v[url].v =>
                        OperationWriters(last.args.order, url, m) # {}

\* Two handlers routed for GET on rules with the same path key: the
\* operation shown is the one of the handler iterated last, h2 without a
\* body parameter, and not the one of h1 with its schema.
C23_Witness ==
    /\ last.op = "swagger" /\ last.err.type = "none"
    /\ Len(url_map) = 5
    /\ url_map[4].endpoint = "h1" /\ url_map[5].endpoint = "h2"
    /\ PathKey(4) = PathKey(5)
    /\ url_map[4].methods = {"GET", "HEAD", "OPTIONS"} /\ url_map[5].methods = url_map[4].methods
    /\ HasAttr("h1", url_map[4].layer, "schema")
    /\ Attrs("h1", url_map[4].layer)["schema"] = SchemaObject
    /\ last.args.order = <<1, 2, 3, 4, 5>>
    /\ DOMAIN last.ret.v["paths"].v[PathKey(4)].v = {"get", "parameters"}
    /\ "parameters" \notin DOMAIN last.ret.v["paths"].v[PathKey(4)].v["get"].v

-----------------------------------------------------------------------------
(* Properties of a read as a whole.                                        *)

\* The document has its fixed keys and, for every rule that is not the
\* static one, the path key and an operation for each method other than
\* HEAD and OPTIONS.
Complete(document) ==
    /\ {"swagger", "info", "paths"} \subseteq DOMAIN document.v
    /\ \A i \in NonStatic :
          /\ PathKey(i) \in DOMAIN document.v["paths"].v
          /\ \A m \in OperationMethods(i) :
                Lower(m) \in DOMAIN document.v["paths"].v[PathKey(i)].v

\* C24: a read of OpenAPI.swagger either returns a complete document, with
\* an operation for every routed rule and method, or raises and returns
\* nothing; in both cases the definition, response and tag registries, the
\* handlers' metadata, the validator getter and the routing table are left
\* as they were.
C24_AllOrNothing ==
    [][last'.op = "swagger" =>
          /\ UNCHANGED <<definitions, responses, tagsReg, funcs, validatorgetter, url_map>>
          /\ IF last'.err.type = "none"
             THEN Complete(last'.ret)
             ELSE last'.ret = None]_vars

\* The read raised for the handler with the unregistered schema name
\* although another handler of the application is routed and assembles.
C24_Witness ==
    /\ last.op = "swagger" /\ last.err.type = "UnknownDefinitionError" /\ last.ret = None
    /\ \E i, j \in RoutedOperations :
          /\ {url_map[i].endpoint, url_map[j].endpoint} \subseteq Sites
          /\ process_rule(url_map[i]).err.type = "none"
          /\ process_rule(url_map[j]).err.type = "UnknownDefinitionError"

-----------------------------------------------------------------------------
(* Properties of the registry of definitions over time.                    *)

\* The schema metadata of the gate at layer k.
GateSchema(h, k) == Attrs(h, k - 1)["schema"]

\* Some call of the getter in the trace was given this schema.
GetterGiven(trace, schema) ==
    \E i \in EventsAt(trace, "validatorgetter") : trace[i].b = schema

\* C25: in every invocation, a gate made by schema(name) that the request
\* reaches validates the body against the schema the definition registry
\* holds under name at that time (and the request fails when it holds
\* none), and a gate made with an inline schema validates against that
\* schema as it is; the request succeeds only if every gate accepts.
C25_ResolvedAtInvocation ==
    (last.op = "request" /\ SchemaLayers(last.args.h) # {}) =>
        \A k \in SchemaLayers(last.args.h) :
            Reached(last.args.h, k, last.args.json) =>
                IF GateSchema(last.args.h, k).t = "str"
                THEN IF GateSchema(last.args.h, k).v \in DOMAIN definitions
                     THEN /\ GetterGiven(last.ret.trace,
                                         definitions[GateSchema(last.args.h, k).v])
                          /\ last.err = NoError =>
                                ValidatorAccepts(validatorgetter,
                                    definitions[GateSchema(last.args.h, k).v], last.args.json)
                     ELSE last.err # NoError
                ELSE /\ GetterGiven(last.ret.trace, GateSchema(last.args.h, k))
                     /\ last.err = NoError =>
                           ValidatorAccepts(validatorgetter, GateSchema(last.args.h, k),
                                            last.args.json)

\* The name was registered twice around one schema(name) decoration and the
\* route; the body is refused by the schema the registry holds now.
C25_Witness ==
    /\ last.op = "request" /\ last.err.type = "ValidationError"
    /\ nops = 4 /\ TopLayer("h1") = 2 /\ RuleOf("h1").layer = 2
    /\ config = DefaultConfig /\ validatorgetter = "OpenAPISchemaValidator"
    /\ GateSchema("h1", 2) = Str("Spam")
    /\ definitions["Spam"] = SchemaSpam
    /\ last.args.json = Dict(EmptyMap)
    /\ GetterGiven(last.ret.trace, SchemaSpam)


\* C26: once add_definition stored a schema under a name, every later state
\* of the registry still maps the name to that schema, whatever is
\* registered, decorated, routed or read afterwards, add_definition calls
\* for the same name included.
C26_DefinitionsImmutable ==
    [][\A name \in DOMAIN definitions :
          /\ name \in DOMAIN definitions'
          /\ definitions'[name] = definitions[name]]_vars

-----------------------------------------------------------------------------
(* Properties of the static route.                                         *)

\* The rules of the endpoint 'static'.
StaticRules == {i \in 1..Len(url_map) : url_map[i].endpoint = "static"}

=============================================================================
